---------------------------- MODULE Spec2Model ----------------------------
(***************************************************************************)
(* A model of oxc_regexp_parser's PatternParser                            *)
(* (crates/oxc_regexp_parser/src/body_parser/parser/parse.rs).             *)
(*                                                                         *)
(* The recursive-descent grammar functions are operators that take the     *)
(* parser (`self`: its immutable fields) and the reader cursor (`pos`, the *)
(* number of units already consumed) and return a result record that       *)
(* carries the cursor they leave behind:                                   *)
(*     [t |-> "ok",   v, pos]    Ok(v)         of a Result<T>              *)
(*     [t |-> "some", v, pos]    Some(v) / Ok(Some(v))                     *)
(*     [t |-> "none", pos]       None / Ok(None)                           *)
(*     [t |-> "err",  msg, pos]  Err(OxcDiagnostic::error(msg))            *)
(*     [t |-> "panic", msg, pos] a panic                                   *)
(* The state machine around them is: a caller holds a source text and      *)
(* options, constructs the parser (New) and calls parse (Parse).  The      *)
(* parser is that of a build with or without overflow checks               *)
(* (`overflow_checks`): u32 arithmetic that overflows panics in the one    *)
(* and wraps in the other.                                                 *)
(***************************************************************************)
EXTENDS Integers, Sequences, FiniteSets, TLC

VARIABLES source_text, options, parser, result, pc

vars == <<source_text, options, parser, result, pc>>

-----------------------------------------------------------------------------
(* Characters.  A source text is a sequence of one-character strings; the  *)
(* reader hands out their code points (u32).                               *)

AsciiChars ==
    <<" ", "!", "DQUOTE", "#", "$", "%", "&", "'", "(", ")", "*", "+", ",", "-", ".", "/",
      "0", "1", "2", "3", "4", "5", "6", "7", "8", "9", ":", ";", "<", "=", ">", "?",
      "@", "A", "B", "C", "D", "E", "F", "G", "H", "I", "J", "K", "L", "M", "N", "O",
      "P", "Q", "R", "S", "T", "U", "V", "W", "X", "Y", "Z", "[", "\\", "]", "^", "_",
      "BACKTICK", "a", "b", "c", "d", "e", "f", "g", "h", "i", "j", "k", "l", "m", "n", "o",
      "p", "q", "r", "s", "t", "u", "v", "w", "x", "y", "z", "{", "|", "}", "~">>

(* A character outside ASCII: U+00E9, two bytes in UTF-8 and one code unit  *)
(* in UTF-16.                                                              *)
EAcute == "é"

CharCode ==
    [c \in {AsciiChars[i] : i \in 1..Len(AsciiChars)} \cup {EAcute} |->
        IF c = EAcute THEN 233
        ELSE 31 + (CHOOSE i \in 1..Len(AsciiChars) : AsciiChars[i] = c)]

Code(c) == CharCode[c]

NoCp == -1

-----------------------------------------------------------------------------
(* Result records.                                                         *)

Ok(v, pos) == [t |-> "ok", v |-> v, pos |-> pos]

Some(v, pos) == [t |-> "some", v |-> v, pos |-> pos]

None(pos) == [t |-> "none", pos |-> pos]

Err(msg, pos) == [t |-> "err", msg |-> msg, pos |-> pos]

(* A panic: nothing is returned, the thread unwinds through every caller.  *)
Panic(msg, pos) == [t |-> "panic", msg |-> msg, pos |-> pos]

(* `r?` returns early on Err; a panic leaves the caller the same way.      *)
Raised(r) == r.t \in {"err", "panic"}

SomeOpt(v) == <<v>>

NoneOpt == <<>>

-----------------------------------------------------------------------------
(* Reader: a cursor over the text it was constructed with.                 *)

peek(self, pos) ==
    IF pos < Len(self.reader_text) THEN Code(self.reader_text[pos + 1]) ELSE NoCp

peek2(self, pos) ==
    IF pos + 1 < Len(self.reader_text) THEN Code(self.reader_text[pos + 2]) ELSE NoCp

advance(self, pos) == IF pos < Len(self.reader_text) THEN pos + 1 ELSE pos

eat(self, pos, c) == peek(self, pos) = Code(c)

eat2(self, pos, c1, c2) ==
    /\ peek(self, pos) = Code(c1)
    /\ peek2(self, pos) = Code(c2)

eat3(self, pos, c1, c2, c3) ==
    /\ eat2(self, pos, c1, c2)
    /\ peek(self, pos + 2) = Code(c3)

eat4(self, pos, c1, c2, c3, c4) ==
    /\ eat3(self, pos, c1, c2, c3)
    /\ peek(self, pos + 3) = Code(c4)

Utf16Len(cp) == IF cp > 65535 THEN 2 ELSE 1

span_position(self, pos) ==
    pos + Cardinality({i \in 1..pos : Utf16Len(Code(self.reader_text[i])) = 2})

create(self, start, end) ==
    [start |-> self.span_offset + start, end |-> self.span_offset + end]

merge(s1, s2) ==
    [start |-> IF s1.start < s2.start THEN s1.start ELSE s2.start,
     end |-> IF s1.end > s2.end THEN s1.end ELSE s2.end]

-----------------------------------------------------------------------------
(* unicode: character classification.                                      *)

is_syntax_character(cp) ==
    cp \in {Code("^"), Code("$"), Code("\\"), Code("."), Code("*"), Code("+"),
            Code("?"), Code("("), Code(")"), Code("["), Code("]"), Code("{"),
            Code("}"), Code("|")}

is_decimal_digit(cp) == cp >= Code("0") /\ cp <= Code("9")

is_octal_digit(cp) == cp >= Code("0") /\ cp <= Code("7")

map_hex_digit(cp) ==
    IF cp >= Code("0") /\ cp <= Code("9") THEN cp - Code("0")
    ELSE IF cp >= Code("a") /\ cp <= Code("f") THEN cp - Code("a") + 10
    ELSE IF cp >= Code("A") /\ cp <= Code("F") THEN cp - Code("A") + 10
    ELSE NoCp

map_control_escape(cp) ==
    IF cp = Code("f") THEN 12
    ELSE IF cp = Code("n") THEN 10
    ELSE IF cp = Code("r") THEN 13
    ELSE IF cp = Code("t") THEN 9
    ELSE IF cp = Code("v") THEN 11
    ELSE NoCp

is_ascii_letter(cp) ==
    \/ cp >= Code("a") /\ cp <= Code("z")
    \/ cp >= Code("A") /\ cp <= Code("Z")

map_c_ascii_letter(cp) == IF is_ascii_letter(cp) THEN cp % 32 ELSE NoCp

is_unicode_id_start(cp) == is_ascii_letter(cp) \/ cp = Code(EAcute)

is_unicode_id_continue(cp) ==
    is_unicode_id_start(cp) \/ is_decimal_digit(cp) \/ cp = Code("_")

is_identifier_start_char(cp) ==
    is_unicode_id_start(cp) \/ cp = Code("$") \/ cp = Code("_")

is_identifier_part_char(cp) ==
    is_unicode_id_continue(cp) \/ cp = Code("$")

is_lead_surrogate(cp) == cp >= 55296 /\ cp <= 56319

is_trail_surrogate(cp) == cp >= 56320 /\ cp <= 57343

combine_surrogate_pair(lead, trail) ==
    (lead - 55296) * 1024 + (trail - 56320) + 65536

is_valid_unicode(cp) == cp >= 0 /\ cp <= 1114111

-----------------------------------------------------------------------------
(* u32: a value below 2^31 is the integer itself; a value from 2^31 up is  *)
(* kept as value - 2^32, the same 32 bits read as an i32, since the        *)
(* integers of the checker end at 2^31 - 1.  The arithmetic works on the   *)
(* 16-bit halves of the 32 bits.                                           *)

Half == 65536

u32_hi(x) == (x \div Half) % Half

u32_lo(x) == x % Half

u32_from(hi, lo) ==
    IF (hi % Half) < (Half \div 2) THEN (hi % Half) * Half + lo
    ELSE ((hi % Half) - Half) * Half + lo

(* a * b for a small a (a radix), wrapped to 32 bits, and whether it       *)
(* overflowed.                                                             *)
u32_mul(a, b) ==
    LET low == a * u32_lo(b)
        high == a * u32_hi(b) + (low \div Half)
    IN  [v |-> u32_from(high, low % Half), overflow |-> high >= Half]

(* a + b, wrapped to 32 bits, and whether it overflowed.                   *)
u32_add(a, b) ==
    LET low == u32_lo(a) + u32_lo(b)
        high == u32_hi(a) + u32_hi(b) + (low \div Half)
    IN  [v |-> u32_from(high, low % Half), overflow |-> high >= Half]

(* a < b on u32.                                                           *)
u32_lt(a, b) == IF (a < 0) = (b < 0) THEN a < b ELSE b < 0

is_unicode_property_name_character(cp) == is_ascii_letter(cp) \/ cp = Code("_")

is_unicode_property_value_character(cp) ==
    is_unicode_property_name_character(cp) \/ is_decimal_digit(cp)

-----------------------------------------------------------------------------
(* unicode_property: the property tables (a small excerpt).                *)

General_Category == <<"G", "e", "n", "e", "r", "a", "l", "_", "C", "a", "t", "e", "g", "o", "r", "y">>

GeneralCategoryValues == {<<"L">>, <<"L", "u">>, <<"N">>, <<"N", "d">>}

ScriptValues == {<<"L", "a", "t", "n">>, <<"G", "r", "e", "k">>}

is_valid_unicode_property(name, value) ==
    \/ /\ name \in {General_Category, <<"g", "c">>}
       /\ value \in GeneralCategoryValues
    \/ /\ name \in {<<"S", "c", "r", "i", "p", "t">>, <<"s", "c">>, <<"s", "c", "x">>}
       /\ value \in ScriptValues

is_valid_lone_unicode_property(name) ==
    name \in {<<"A", "n", "y">>, <<"A", "S", "C", "I", "I">>, <<"A", "l", "p", "h", "a">>}

is_valid_lone_unicode_property_of_strings(name) ==
    name \in {<<"R", "G", "I", "_", "E", "m", "o", "j", "i">>,
              <<"B", "a", "s", "i", "c", "_", "E", "m", "o", "j", "i">>}

-----------------------------------------------------------------------------
(* &source_text[start..end]: a slice of a str by byte offsets.             *)

Utf8Len(cp) == IF cp < 128 THEN 1 ELSE IF cp < 2048 THEN 2 ELSE IF cp < 65536 THEN 3 ELSE 4

RECURSIVE byte_offset(_, _)
byte_offset(text, i) ==
    IF i = 0 THEN 0 ELSE byte_offset(text, i - 1) + Utf8Len(Code(text[i]))

str_slice(text, start, end) ==
    LET bounds == {byte_offset(text, i) : i \in 0..Len(text)}
        first == CHOOSE i \in 0..Len(text) : byte_offset(text, i) = start
        last == CHOOSE i \in 0..Len(text) : byte_offset(text, i) = end
    IN  IF start \in bounds /\ end \in bounds /\ start <= end
        THEN SubSeq(text, first + 1, last)
        ELSE <<"PANIC">>

(* Some(SpanAtom::from(&self.source_text[start..end])), or the panic of    *)
(* the slice.                                                              *)
SomeSpanAtom(self, start, end, pos) ==
    IF str_slice(self.source_text, start, end) = <<"PANIC">>
    THEN Panic("byte index is not a char boundary", pos)
    ELSE Some(str_slice(self.source_text, start, end), pos)

-----------------------------------------------------------------------------
(* `let x = e;`: the value e bound to x in what follows.                   *)

Let(v, K(_)) == K(v)

-----------------------------------------------------------------------------
(* The consume_* functions of PatternParser.                               *)

(* `value = (radix * value) + digit` on a u32: with overflow checks (a      *)
(* debug build) an overflow panics, without them (a release build) the     *)
(* value wraps.                                                            *)
u32_accumulate(self, radix, value, digit) ==
    Let(u32_mul(radix, value), LAMBDA product :
    Let(u32_add(product.v, digit), LAMBDA sum :
        IF self.overflow_checks /\ product.overflow
        THEN [panic |-> "attempt to multiply with overflow", v |-> 0]
        ELSE IF self.overflow_checks /\ sum.overflow
        THEN [panic |-> "attempt to add with overflow", v |-> 0]
        ELSE [panic |-> "", v |-> sum.v]))

RECURSIVE consume_decimal_digits_loop(_, _, _)
consume_decimal_digits_loop(self, pos, value) ==
    IF is_decimal_digit(peek(self, pos))
    THEN Let(u32_accumulate(self, 10, value, peek(self, pos) - Code("0")), LAMBDA next :
         IF next.panic # "" THEN [panic |-> next.panic, value |-> value, pos |-> pos]
         ELSE consume_decimal_digits_loop(self, advance(self, pos), next.v))
    ELSE [panic |-> "", value |-> value, pos |-> pos]

consume_decimal_digits(self, pos) ==
    Let(consume_decimal_digits_loop(self, pos, 0), LAMBDA l :
        IF l.panic # "" THEN Panic(l.panic, l.pos)
        ELSE IF l.pos # pos THEN Some(l.value, l.pos) ELSE None(l.pos))

consume_decimal_escape(self, pos) ==
    Let(consume_decimal_digits(self, pos), LAMBDA index :
        IF Raised(index) THEN index
        ELSE IF index.t = "some" /\ index.v # 0 THEN Some(index.v, index.pos)
        ELSE None(index.pos))

(* is_greedy, were it to leave a "?" after the quantifier prefix alone.    *)
is_greedy_always(self, pos, min, max) ==
    Some([min |-> min, max |-> max, greedy |-> TRUE], pos)

is_greedy(self, pos, min, max) ==
    IF eat(self, pos, "?")
    THEN Some([min |-> min, max |-> max, greedy |-> FALSE], pos + 1)
    ELSE Some([min |-> min, max |-> max, greedy |-> TRUE], pos)

(* consume_quantifier, were it to accept a braced maximum below the        *)
(* minimum.                                                                *)
consume_quantifier_braced_unordered(self, pos) ==
    Let(consume_decimal_digits(self, pos), LAMBDA min :
        IF Raised(min) THEN min
        ELSE IF min.t = "some"
        THEN IF eat(self, min.pos, "}")
             THEN is_greedy(self, min.pos + 1, min.v, SomeOpt(min.v))
             ELSE IF eat(self, min.pos, ",")
             THEN IF eat(self, min.pos + 1, "}")
                  THEN is_greedy(self, min.pos + 2, min.v, NoneOpt)
                  ELSE Let(consume_decimal_digits(self, min.pos + 1), LAMBDA max :
                       IF Raised(max) THEN max
                       ELSE IF max.t = "some" /\ eat(self, max.pos, "}")
                       THEN is_greedy(self, max.pos + 1, min.v, SomeOpt(max.v))
                       ELSE Err("Unterminated quantifier", max.pos))
             ELSE Err("Unterminated quantifier", min.pos)
        ELSE Err("Unterminated quantifier", min.pos))

(* consume_quantifier after "{", were it to give the "{" back when no      *)
(* complete braced quantifier follows.                                     *)
consume_quantifier_braced_rewinding(self, pos) ==
    Let(consume_decimal_digits(self, pos), LAMBDA min :
        IF Raised(min) THEN min
        ELSE IF min.t = "some"
        THEN IF eat(self, min.pos, "}")
             THEN is_greedy(self, min.pos + 1, min.v, SomeOpt(min.v))
             ELSE IF eat(self, min.pos, ",")
             THEN IF eat(self, min.pos + 1, "}")
                  THEN is_greedy(self, min.pos + 2, min.v, NoneOpt)
                  ELSE Let(consume_decimal_digits(self, min.pos + 1), LAMBDA max :
                       IF Raised(max) THEN max
                       ELSE IF max.t = "some" /\ eat(self, max.pos, "}")
                       THEN IF u32_lt(max.v, min.v)
                            THEN Err("Numbers out of order in braced quantifier",
                                     max.pos + 1)
                            ELSE is_greedy(self, max.pos + 1, min.v, SomeOpt(max.v))
                       ELSE None(pos - 1))
             ELSE None(pos - 1)
        ELSE None(pos - 1))

consume_quantifier_braced(self, pos) ==
    Let(consume_decimal_digits(self, pos), LAMBDA min :
        IF Raised(min) THEN min
        ELSE IF min.t = "some"
        THEN IF eat(self, min.pos, "}")
             THEN is_greedy(self, min.pos + 1, min.v, SomeOpt(min.v))
             ELSE IF eat(self, min.pos, ",")
             THEN IF eat(self, min.pos + 1, "}")
                  THEN is_greedy(self, min.pos + 2, min.v, NoneOpt)
                  ELSE Let(consume_decimal_digits(self, min.pos + 1), LAMBDA max :
                       IF Raised(max) THEN max
                       ELSE IF max.t = "some" /\ eat(self, max.pos, "}")
                       THEN IF u32_lt(max.v, min.v)
                            THEN Err("Numbers out of order in braced quantifier",
                                     max.pos + 1)
                            ELSE is_greedy(self, max.pos + 1, min.v, SomeOpt(max.v))
                       ELSE Err("Unterminated quantifier", max.pos))
             ELSE Err("Unterminated quantifier", min.pos)
        ELSE Err("Unterminated quantifier", min.pos))

consume_quantifier(self, pos) ==
    IF eat(self, pos, "*") THEN is_greedy(self, pos + 1, 0, NoneOpt)
    ELSE IF eat(self, pos, "+") THEN is_greedy(self, pos + 1, 1, NoneOpt)
    ELSE IF eat(self, pos, "?") THEN is_greedy(self, pos + 1, 0, SomeOpt(1))
    ELSE IF eat(self, pos, "{") THEN consume_quantifier_braced(self, pos + 1)
    ELSE None(pos)

RECURSIVE consume_hex_digits_loop(_, _, _)
consume_hex_digits_loop(self, pos, value) ==
    IF map_hex_digit(peek(self, pos)) # NoCp
    THEN Let(u32_accumulate(self, 16, value, map_hex_digit(peek(self, pos))), LAMBDA next :
         IF next.panic # "" THEN [panic |-> next.panic, value |-> value, pos |-> pos]
         ELSE consume_hex_digits_loop(self, advance(self, pos), next.v))
    ELSE [panic |-> "", value |-> value, pos |-> pos]

consume_hex_digits(self, pos) ==
    Let(consume_hex_digits_loop(self, pos, 0), LAMBDA l :
        IF l.panic # "" THEN Panic(l.panic, l.pos)
        ELSE IF l.pos # pos THEN Some(l.value, l.pos) ELSE None(l.pos))

RECURSIVE consume_fixed_hex_digits_loop(_, _, _, _, _)
consume_fixed_hex_digits_loop(self, checkpoint, pos, n, value) ==
    IF n = 0 THEN Some(value, pos)
    ELSE IF map_hex_digit(peek(self, pos)) = NoCp THEN None(checkpoint)
    ELSE consume_fixed_hex_digits_loop(self, checkpoint, advance(self, pos), n - 1,
                                       16 * value + map_hex_digit(peek(self, pos)))

consume_fixed_hex_digits(self, pos, len) ==
    consume_fixed_hex_digits_loop(self, pos, pos, len, 0)

consume_octal_digit(self, pos) ==
    IF is_octal_digit(peek(self, pos))
    THEN Some(peek(self, pos) - Code("0"), advance(self, pos))
    ELSE None(pos)

consume_legacy_octal_escape_sequence(self, pos) ==
    Let(consume_octal_digit(self, pos), LAMBDA first :
        IF first.t = "some"
        THEN IF first.v = 0 /\ peek(self, first.pos) \in {Code("8"), Code("9")}
             THEN Some(first.v, first.pos)
             ELSE Let(consume_octal_digit(self, first.pos), LAMBDA second :
                  IF second.t = "some"
                  THEN Let(consume_octal_digit(self, second.pos), LAMBDA third :
                       IF third.t = "some" /\ first.v <= 3
                       THEN Some(first.v * 64 + second.v * 8 + third.v, third.pos)
                       ELSE Some(first.v * 8 + second.v, third.pos))
                  ELSE Some(first.v, second.pos))
        ELSE None(first.pos))

consume_identity_escape(self, pos) ==
    Let(peek(self, pos), LAMBDA cp :
        IF cp = NoCp THEN None(pos)
        ELSE IF self.unicode_mode /\ (is_syntax_character(cp) \/ cp = Code("/"))
        THEN Some(cp, advance(self, pos))
        ELSE IF ~self.unicode_mode /\ (cp # Code("c") /\ cp # Code("k"))
        THEN Some(cp, advance(self, pos))
        ELSE None(pos))

consume_extended_pattern_character(self, pos) ==
    Let(peek(self, pos), LAMBDA cp :
        IF cp = NoCp THEN None(pos)
        ELSE IF cp \in {Code("^"), Code("$"), Code("\\"), Code("."), Code("*"), Code("+"),
                        Code("?"), Code("("), Code(")"), Code("["), Code("|")}
        THEN None(pos)
        ELSE Some(cp, advance(self, pos)))

(* consume_reg_exp_unicode_escape_sequence, were it to read a lead         *)
(* surrogate without looking for the trail surrogate after it.             *)
consume_reg_exp_unicode_escape_sequence_unpaired(self, pos) ==
    IF ~eat(self, pos, "u") THEN None(pos)
    ELSE
    Let(consume_fixed_hex_digits(self, pos + 1, 4), LAMBDA hex4 :
    Let(consume_hex_digits(self, pos + 2), LAMBDA braced :
        IF self.unicode_mode /\ hex4.t = "some" /\ is_lead_surrogate(hex4.v)
        THEN Some(hex4.v, hex4.pos)
        ELSE IF self.unicode_mode /\ hex4.t = "some" /\ is_trail_surrogate(hex4.v)
        THEN Some(hex4.v, hex4.pos)
        ELSE IF hex4.t = "some"
        THEN Some(hex4.v, hex4.pos)
        ELSE IF self.unicode_mode /\ eat(self, pos + 1, "{") /\ Raised(braced)
        THEN braced
        ELSE IF /\ self.unicode_mode
                /\ eat(self, pos + 1, "{")
                /\ braced.t = "some" /\ is_valid_unicode(braced.v)
                /\ eat(self, braced.pos, "}")
        THEN Some(braced.v, braced.pos + 1)
        ELSE Err("Invalid unicode escape", pos + 1)))

(* consume_reg_exp_unicode_escape_sequence, were the lone lead surrogate   *)
(* to keep what the attempt at a pair consumed.                            *)
consume_reg_exp_unicode_escape_sequence_unrewound(self, pos) ==
    IF ~eat(self, pos, "u") THEN None(pos)
    ELSE
    Let(consume_fixed_hex_digits(self, pos + 1, 4), LAMBDA hex4 :
    Let(consume_fixed_hex_digits(self, hex4.pos + 2, 4), LAMBDA trail4 :
    Let(consume_hex_digits(self, pos + 2), LAMBDA braced :
        IF /\ self.unicode_mode
           /\ hex4.t = "some" /\ is_lead_surrogate(hex4.v)
           /\ eat2(self, hex4.pos, "\\", "u")
           /\ trail4.t = "some" /\ is_trail_surrogate(trail4.v)
        THEN Some(combine_surrogate_pair(hex4.v, trail4.v), trail4.pos)
        ELSE IF self.unicode_mode /\ hex4.t = "some" /\ is_lead_surrogate(hex4.v)
        THEN Some(hex4.v, IF eat2(self, hex4.pos, "\\", "u") THEN trail4.pos ELSE hex4.pos)
        ELSE IF self.unicode_mode /\ hex4.t = "some" /\ is_trail_surrogate(hex4.v)
        THEN Some(hex4.v, hex4.pos)
        ELSE IF hex4.t = "some"
        THEN Some(hex4.v, hex4.pos)
        ELSE IF self.unicode_mode /\ eat(self, pos + 1, "{") /\ Raised(braced)
        THEN braced
        ELSE IF /\ self.unicode_mode
                /\ eat(self, pos + 1, "{")
                /\ braced.t = "some" /\ is_valid_unicode(braced.v)
                /\ eat(self, braced.pos, "}")
        THEN Some(braced.v, braced.pos + 1)
        ELSE Err("Invalid unicode escape", pos + 1))))

consume_reg_exp_unicode_escape_sequence(self, pos) ==
    IF ~eat(self, pos, "u") THEN None(pos)
    ELSE
    Let(consume_fixed_hex_digits(self, pos + 1, 4), LAMBDA hex4 :
    Let(consume_fixed_hex_digits(self, hex4.pos + 2, 4), LAMBDA trail4 :
    Let(consume_hex_digits(self, pos + 2), LAMBDA braced :
        IF /\ self.unicode_mode
           /\ hex4.t = "some" /\ is_lead_surrogate(hex4.v)
           /\ eat2(self, hex4.pos, "\\", "u")
           /\ trail4.t = "some" /\ is_trail_surrogate(trail4.v)
        THEN Some(combine_surrogate_pair(hex4.v, trail4.v), trail4.pos)
        ELSE IF self.unicode_mode /\ hex4.t = "some" /\ is_lead_surrogate(hex4.v)
        THEN Some(hex4.v, hex4.pos)
        ELSE IF self.unicode_mode /\ hex4.t = "some" /\ is_trail_surrogate(hex4.v)
        THEN Some(hex4.v, hex4.pos)
        ELSE IF hex4.t = "some"
        THEN Some(hex4.v, hex4.pos)
        ELSE IF self.unicode_mode /\ eat(self, pos + 1, "{") /\ Raised(braced)
        THEN braced
        ELSE IF /\ self.unicode_mode
                /\ eat(self, pos + 1, "{")
                /\ braced.t = "some" /\ is_valid_unicode(braced.v)
                /\ eat(self, braced.pos, "}")
        THEN Some(braced.v, braced.pos + 1)
        ELSE Err("Invalid unicode escape", pos + 1))))

consume_reg_exp_idenfigier_start(self, pos) ==
    Let(peek(self, pos), LAMBDA cp :
        IF cp # NoCp /\ is_identifier_start_char(cp) THEN Some(cp, advance(self, pos))
        ELSE
        Let(IF eat(self, pos, "\\") THEN consume_reg_exp_unicode_escape_sequence(self, pos + 1)
            ELSE None(pos), LAMBDA esc :
            IF Raised(esc) THEN esc
            ELSE IF esc.t = "some"
            THEN IF ~is_identifier_start_char(esc.v)
                 THEN Err("Invalid unicode escape sequence", esc.pos)
                 ELSE Some(esc.v, esc.pos)
            ELSE IF /\ ~self.unicode_mode
                    /\ is_lead_surrogate(peek(self, esc.pos))
                    /\ is_trail_surrogate(peek2(self, esc.pos))
            THEN IF ~is_unicode_id_start(combine_surrogate_pair(peek(self, esc.pos),
                                                     peek2(self, esc.pos)))
                 THEN Err("Invalid surrogate pair", esc.pos + 2)
                 ELSE Some(combine_surrogate_pair(peek(self, esc.pos),
                                                  peek2(self, esc.pos)), esc.pos + 2)
            ELSE None(esc.pos)))

consume_reg_exp_idenfigier_part(self, pos) ==
    Let(peek(self, pos), LAMBDA cp :
        IF cp # NoCp /\ is_identifier_part_char(cp) THEN Some(cp, advance(self, pos))
        ELSE
        Let(IF eat(self, pos, "\\") THEN consume_reg_exp_unicode_escape_sequence(self, pos + 1)
            ELSE None(pos), LAMBDA esc :
            IF Raised(esc) THEN esc
            ELSE IF esc.t = "some"
            THEN IF ~is_identifier_part_char(esc.v)
                 THEN Err("Invalid unicode escape sequence", esc.pos)
                 ELSE Some(esc.v, esc.pos)
            ELSE IF /\ ~self.unicode_mode
                    /\ is_lead_surrogate(peek(self, esc.pos))
                    /\ is_trail_surrogate(peek2(self, esc.pos))
            THEN IF ~is_unicode_id_continue(combine_surrogate_pair(peek(self, esc.pos),
                                                     peek2(self, esc.pos)))
                 THEN Err("Invalid surrogate pair", esc.pos + 2)
                 ELSE Some(combine_surrogate_pair(peek(self, esc.pos),
                                                  peek2(self, esc.pos)), esc.pos + 2)
            ELSE None(esc.pos)))

RECURSIVE consume_reg_exp_idenfigier_part_loop(_, _)
consume_reg_exp_idenfigier_part_loop(self, pos) ==
    Let(consume_reg_exp_idenfigier_part(self, pos), LAMBDA part :
        IF part.t = "some" THEN consume_reg_exp_idenfigier_part_loop(self, part.pos)
        ELSE part)

consume_reg_exp_idenfigier_name(self, pos) ==
    Let(span_position(self, pos), LAMBDA span_start :
    Let(consume_reg_exp_idenfigier_start(self, pos), LAMBDA start :
        IF Raised(start) THEN start
        ELSE IF start.t = "some"
        THEN Let(consume_reg_exp_idenfigier_part_loop(self, start.pos), LAMBDA parts :
             IF Raised(parts) THEN parts
             ELSE SomeSpanAtom(self, span_start, span_position(self, parts.pos),
                               parts.pos))
        ELSE None(start.pos)))

consume_group_name(self, pos) ==
    IF ~eat(self, pos, "<") THEN None(pos)
    ELSE
    Let(consume_reg_exp_idenfigier_name(self, pos + 1), LAMBDA group_name :
        IF Raised(group_name) THEN group_name
        ELSE IF group_name.t = "some" /\ eat(self, group_name.pos, ">")
        THEN Some(group_name.v, group_name.pos + 1)
        ELSE Err("Invalid capture group name", group_name.pos))

RECURSIVE consume_unicode_property_name_loop(_, _)
consume_unicode_property_name_loop(self, pos) ==
    IF peek(self, pos) = NoCp THEN [eof |-> TRUE, pos |-> pos]
    ELSE IF is_unicode_property_name_character(peek(self, pos))
    THEN consume_unicode_property_name_loop(self, advance(self, pos))
    ELSE [eof |-> FALSE, pos |-> pos]

consume_unicode_property_name(self, pos) ==
    Let(consume_unicode_property_name_loop(self, pos), LAMBDA l :
        IF l.eof \/ l.pos = pos THEN None(l.pos)
        ELSE SomeSpanAtom(self, span_position(self, pos), span_position(self, l.pos),
                          l.pos))

RECURSIVE consume_unicode_property_value_loop(_, _)
consume_unicode_property_value_loop(self, pos) ==
    IF peek(self, pos) = NoCp THEN [eof |-> TRUE, pos |-> pos]
    ELSE IF is_unicode_property_value_character(peek(self, pos))
    THEN consume_unicode_property_value_loop(self, advance(self, pos))
    ELSE [eof |-> FALSE, pos |-> pos]

consume_unicode_property_value(self, pos) ==
    Let(consume_unicode_property_value_loop(self, pos), LAMBDA l :
        IF l.eof \/ l.pos = pos THEN None(l.pos)
        ELSE SomeSpanAtom(self, span_position(self, pos), span_position(self, l.pos),
                          l.pos))

UnicodeProperty(name, value, strings) ==
    [name |-> name, value |-> value, strings |-> strings]

consume_unicode_property_value_expression(self, pos) ==
    Let(consume_unicode_property_name(self, pos), LAMBDA name :
    Let(IF name.t = "some" /\ eat(self, name.pos, "=")
        THEN consume_unicode_property_value(self, name.pos + 1)
        ELSE None(pos), LAMBDA value :
        IF Raised(name) THEN name
        ELSE IF Raised(value) THEN value
        ELSE IF value.t = "some"
        THEN IF is_valid_unicode_property(name.v, value.v)
             THEN Some(UnicodeProperty(name.v, SomeOpt(value.v), FALSE), value.pos)
             ELSE Err("Invalid property name", value.pos)
        ELSE
        Let(consume_unicode_property_value(self, pos), LAMBDA name_or_value :
            IF Raised(name_or_value) THEN name_or_value
            ELSE IF name_or_value.t = "some"
            THEN IF is_valid_unicode_property(General_Category, name_or_value.v)
                 THEN Some(UnicodeProperty(General_Category, SomeOpt(name_or_value.v),
                                           FALSE), name_or_value.pos)
                 ELSE IF is_valid_lone_unicode_property(name_or_value.v)
                 THEN Some(UnicodeProperty(name_or_value.v, NoneOpt, FALSE),
                           name_or_value.pos)
                 ELSE IF is_valid_lone_unicode_property_of_strings(name_or_value.v)
                 THEN IF ~self.unicode_sets_mode
                      THEN Err("Syntax Error", name_or_value.pos)
                      ELSE Some(UnicodeProperty(name_or_value.v, NoneOpt, TRUE),
                                name_or_value.pos)
                 ELSE Err("Invalid property name", name_or_value.pos)
            ELSE None(name_or_value.pos))))

-----------------------------------------------------------------------------
(* The parse_* functions of PatternParser: escapes and character classes.  *)

Character(span, kind, value) ==
    [type |-> "Character", span |-> span, kind |-> kind, value |-> value]

(* Some(ast::Character { span: span_start..reader position, kind, value }) *)
SomeCharacter(self, span_start, kind, value, end) ==
    Some(Character(create(self, span_start, span_position(self, end)), kind, value), end)

parse_character_class_escape(self, pos, span_start) ==
    Let(IF eat(self, pos, "d") THEN "D"
        ELSE IF eat(self, pos, "D") THEN "NegativeD"
        ELSE IF eat(self, pos, "s") THEN "S"
        ELSE IF eat(self, pos, "S") THEN "NegativeS"
        ELSE IF eat(self, pos, "w") THEN "W"
        ELSE IF eat(self, pos, "W") THEN "NegativeW"
        ELSE "none", LAMBDA kind :
        IF kind = "none" THEN None(pos)
        ELSE Some([type |-> "CharacterClassEscape",
                   span |-> create(self, span_start, span_position(self, pos + 1)),
                   kind |-> kind], pos + 1))

parse_character_class_escape_unicode(self, pos, span_start) ==
    IF ~self.unicode_mode THEN None(pos)
    ELSE IF ~eat(self, pos, "p") /\ ~eat(self, pos, "P") THEN None(pos)
    ELSE IF ~eat(self, pos + 1, "{")
    THEN Err("Unterminated unicode property escape", pos + 1)
    ELSE
    Let(eat(self, pos, "p"), LAMBDA negative :
    Let(consume_unicode_property_value_expression(self, pos + 2), LAMBDA expr :
        IF Raised(expr) THEN expr
        ELSE IF expr.t = "some"
        THEN IF negative /\ expr.v.strings
             THEN Err("Invalid property name", expr.pos)
             ELSE IF eat(self, expr.pos, "}")
             THEN Some([type |-> "UnicodePropertyEscape",
                        span |-> create(self, span_start, span_position(self, expr.pos + 1)),
                        negative |-> negative,
                        strings |-> expr.v.strings,
                        name |-> expr.v.name,
                        value |-> expr.v.value], expr.pos + 1)
             ELSE Err("Unterminated unicode property escape", expr.pos)
        ELSE Err("Unterminated unicode property escape", expr.pos)))

(* The tail of parse_character_escape: \u.., legacy octal, identity.       *)
parse_character_escape_tail(self, pos, span_start) ==
    Let(consume_reg_exp_unicode_escape_sequence(self, pos), LAMBDA uni :
        IF Raised(uni) THEN uni
        ELSE IF uni.t = "some"
        THEN SomeCharacter(self, span_start, "UnicodeEscape", uni.v, uni.pos)
        ELSE
        Let(IF self.unicode_mode THEN None(uni.pos)
            ELSE consume_legacy_octal_escape_sequence(self, uni.pos), LAMBDA octal :
            IF octal.t = "some"
            THEN SomeCharacter(self, span_start, "Octal", octal.v, octal.pos)
            ELSE
            Let(consume_identity_escape(self, octal.pos), LAMBDA identity :
                IF identity.t = "some"
                THEN SomeCharacter(self, span_start, "Identifier", identity.v,
                                   identity.pos)
                ELSE None(identity.pos))))

parse_character_escape(self, pos, span_start) ==
    Let(peek(self, pos), LAMBDA cp :
        IF map_control_escape(cp) # NoCp
        THEN SomeCharacter(self, span_start, "SingleEscape", map_control_escape(cp),
                           advance(self, pos))
        ELSE IF eat(self, pos, "c") /\ map_c_ascii_letter(peek(self, pos + 1)) # NoCp
        THEN SomeCharacter(self, span_start, "ControlLetter",
                           map_c_ascii_letter(peek(self, pos + 1)), pos + 2)
        ELSE IF cp = Code("0") /\ ~is_decimal_digit(peek2(self, pos))
        THEN SomeCharacter(self, span_start, "Null", 0, advance(self, pos))
        ELSE IF eat(self, pos, "x")
        THEN Let(consume_fixed_hex_digits(self, pos + 1, 2), LAMBDA hex2 :
             IF hex2.t = "some"
             THEN SomeCharacter(self, span_start, "HexadecimalEscape", hex2.v, hex2.pos)
             ELSE Err("Invalid escape", hex2.pos))
        ELSE parse_character_escape_tail(self, pos, span_start))

parse_class_escape(self, pos, span_start) ==
    IF eat(self, pos, "b") THEN SomeCharacter(self, span_start, "Symbol", Code("b"), pos + 1)
    ELSE IF self.unicode_mode /\ eat(self, pos, "-")
    THEN SomeCharacter(self, span_start, "Symbol", Code("-"), pos + 1)
    ELSE IF /\ ~self.unicode_mode
            /\ eat(self, pos, "c")
            /\ (is_decimal_digit(peek(self, pos + 1)) \/ peek(self, pos + 1) = Code("-"))
    THEN SomeCharacter(self, span_start, "ControlLetter", peek(self, pos + 1), pos + 2)
    ELSE
    Let(parse_character_class_escape(self, pos, span_start), LAMBDA class_escape :
        IF class_escape.t = "some" THEN class_escape
        ELSE
        Let(parse_character_class_escape_unicode(self, class_escape.pos, span_start),
            LAMBDA property_escape :
            IF property_escape.t # "none" THEN property_escape
            ELSE parse_character_escape(self, property_escape.pos, span_start)))

parse_class_atom_no_dash(self, pos) ==
    Let(span_position(self, pos), LAMBDA span_start :
    Let(peek(self, pos), LAMBDA cp :
        IF cp # NoCp /\ cp # Code("\\") /\ cp # Code("]") /\ cp # Code("-")
        THEN SomeCharacter(self, span_start, "Symbol", cp, pos + 1)
        ELSE IF eat(self, pos, "\\")
        THEN IF peek(self, pos + 1) = Code("c")
             THEN SomeCharacter(self, span_start, "Symbol", Code("\\"), pos + 1)
             ELSE Let(parse_class_escape(self, pos + 1, span_start), LAMBDA class_escape :
                  IF class_escape.t # "none" THEN class_escape
                  ELSE Err("Invalid class escape", class_escape.pos))
        ELSE None(pos)))

parse_class_atom(self, pos) ==
    IF eat(self, pos, "-")
    THEN SomeCharacter(self, span_position(self, pos), "Symbol", Code("-"), pos + 1)
    ELSE parse_class_atom_no_dash(self, pos)

RECURSIVE parse_class_contents(_, _)
RECURSIVE parse_nonempty_class_ranges(_, _)

CharacterClassRange(from, to) ==
    [type |-> "CharacterClassRange",
     span |-> merge(from.span, to.span),
     min |-> from,
     max |-> to]

(* The ClassAtom - ClassAtom branch, were it to accept a range whose end   *)
(* is below its start.                                                     *)
parse_nonempty_class_ranges_range_unordered(self, pos, class_atom) ==
    Let(SomeCharacter(self, span_position(self, pos), "Symbol", Code("-"), pos + 1).v,
        LAMBDA dash :
    Let(parse_class_atom(self, pos + 1), LAMBDA class_atom_to :
        IF Raised(class_atom_to) THEN class_atom_to
        ELSE IF class_atom_to.t = "none"
        THEN Err("Missing class atom pair", class_atom_to.pos)
        ELSE
        Let(class_atom.type = "Character" /\ class_atom_to.v.type = "Character",
            LAMBDA is_range :
            IF ~is_range /\ self.unicode_mode
            THEN Err("Invalid character class range", class_atom_to.pos)
            ELSE
            Let(parse_class_contents(self, class_atom_to.pos), LAMBDA class_contents :
                IF Raised(class_contents) THEN class_contents
                ELSE IF is_range
                THEN Some(<<CharacterClassRange(class_atom, class_atom_to.v)>>
                              \o class_contents.v.body, class_contents.pos)
                ELSE Some(<<class_atom, dash, class_atom_to.v>>
                              \o class_contents.v.body, class_contents.pos)))))

(* The ClassAtom - ClassAtom branch, were it to let a class escape stand   *)
(* beside the dash in unicode mode too.                                    *)
parse_nonempty_class_ranges_range_lenient(self, pos, class_atom) ==
    Let(SomeCharacter(self, span_position(self, pos), "Symbol", Code("-"), pos + 1).v,
        LAMBDA dash :
    Let(parse_class_atom(self, pos + 1), LAMBDA class_atom_to :
        IF Raised(class_atom_to) THEN class_atom_to
        ELSE IF class_atom_to.t = "none"
        THEN Err("Missing class atom pair", class_atom_to.pos)
        ELSE
        Let(class_atom.type = "Character" /\ class_atom_to.v.type = "Character",
            LAMBDA is_range :
            IF is_range /\ class_atom_to.v.value < class_atom.value
            THEN Err("Character class range out of order", class_atom_to.pos)
            ELSE
            Let(parse_class_contents(self, class_atom_to.pos), LAMBDA class_contents :
                IF Raised(class_contents) THEN class_contents
                ELSE IF is_range
                THEN Some(<<CharacterClassRange(class_atom, class_atom_to.v)>>
                              \o class_contents.v.body, class_contents.pos)
                ELSE Some(<<class_atom, dash, class_atom_to.v>>
                              \o class_contents.v.body, class_contents.pos)))))

parse_nonempty_class_ranges_range(self, pos, class_atom) ==
    Let(SomeCharacter(self, span_position(self, pos), "Symbol", Code("-"), pos + 1).v,
        LAMBDA dash :
    Let(parse_class_atom(self, pos + 1), LAMBDA class_atom_to :
        IF Raised(class_atom_to) THEN class_atom_to
        ELSE IF class_atom_to.t = "none"
        THEN Err("Missing class atom pair", class_atom_to.pos)
        ELSE
        Let(class_atom.type = "Character" /\ class_atom_to.v.type = "Character",
            LAMBDA is_range :
            IF is_range /\ class_atom_to.v.value < class_atom.value
            THEN Err("Character class range out of order", class_atom_to.pos)
            ELSE IF ~is_range /\ self.unicode_mode
            THEN Err("Invalid character class range", class_atom_to.pos)
            ELSE
            Let(parse_class_contents(self, class_atom_to.pos), LAMBDA class_contents :
                IF Raised(class_contents) THEN class_contents
                ELSE IF is_range
                THEN Some(<<CharacterClassRange(class_atom, class_atom_to.v)>>
                              \o class_contents.v.body, class_contents.pos)
                ELSE Some(<<class_atom, dash, class_atom_to.v>>
                              \o class_contents.v.body, class_contents.pos)))))

parse_nonempty_class_ranges(self, pos) ==
    Let(parse_class_atom(self, pos), LAMBDA class_atom :
        IF Raised(class_atom) THEN class_atom
        ELSE IF class_atom.t = "none" THEN Err("Empty class atom", class_atom.pos)
        ELSE IF peek(self, class_atom.pos) = Code("]")
        THEN Some(<<class_atom.v>>, class_atom.pos)
        ELSE IF /\ peek(self, class_atom.pos) = Code("-")
                /\ peek2(self, class_atom.pos) # NoCp
                /\ peek2(self, class_atom.pos) # Code("]")
        THEN parse_nonempty_class_ranges_range(self, class_atom.pos, class_atom.v)
        ELSE
        Let(parse_nonempty_class_ranges(self, class_atom.pos), LAMBDA class_ranges :
            IF Raised(class_ranges) THEN class_ranges
            ELSE IF class_ranges.t = "none"
            THEN Err("Missing class ranges", class_ranges.pos)
            ELSE Some(<<class_atom.v>> \o class_ranges.v, class_ranges.pos)))

(* parse_class_contents, were it to enter NonemptyClassRanges in           *)
(* unicode-sets mode too.                                                  *)
parse_class_contents_legacy(self, pos) ==
    IF peek(self, pos) = Code("]") THEN Ok([kind |-> "Union", body |-> <<>>], pos)
    ELSE
    Let(parse_nonempty_class_ranges(self, pos), LAMBDA nonempty_class_ranges :
        IF Raised(nonempty_class_ranges) THEN nonempty_class_ranges
        ELSE IF nonempty_class_ranges.t = "some"
        THEN Ok([kind |-> "Union", body |-> nonempty_class_ranges.v],
                nonempty_class_ranges.pos)
        ELSE Err("Empty class ranges", nonempty_class_ranges.pos))

parse_class_contents(self, pos) ==
    IF peek(self, pos) = Code("]") THEN Ok([kind |-> "Union", body |-> <<>>], pos)
    ELSE IF self.unicode_sets_mode THEN Err("TODO: ClassSetExpression", pos)
    ELSE
    Let(parse_nonempty_class_ranges(self, pos), LAMBDA nonempty_class_ranges :
        IF Raised(nonempty_class_ranges) THEN nonempty_class_ranges
        ELSE IF nonempty_class_ranges.t = "some"
        THEN Ok([kind |-> "Union", body |-> nonempty_class_ranges.v],
                nonempty_class_ranges.pos)
        ELSE Err("Empty class ranges", nonempty_class_ranges.pos))

parse_character_class(self, pos) ==
    IF ~eat(self, pos, "[") THEN None(pos)
    ELSE
    Let(eat(self, pos + 1, "^"), LAMBDA negative :
    Let(parse_class_contents(self, IF negative THEN pos + 2 ELSE pos + 1),
        LAMBDA contents :
        IF Raised(contents) THEN contents
        ELSE IF eat(self, contents.pos, "]")
        THEN Some([type |-> "CharacterClass",
                   span |-> create(self, span_position(self, pos),
                                   span_position(self, contents.pos + 1)),
                   negative |-> negative,
                   kind |-> contents.v.kind,
                   body |-> contents.v.body], contents.pos + 1)
        ELSE Err("Unterminated character class", contents.pos)))

-----------------------------------------------------------------------------
(* The parse_* functions of PatternParser: groups, atoms, terms.  (The     *)
(* grave accents of the two lone-quantifier messages are written ' here.)  *)

(* A call of parse_disjunction from inside a group.  What it returns at a   *)
(* reader position depends on the text from that position on only, so the  *)
(* results are computed once, from the end of the text backwards           *)
(* (parse_disjunctions), and a call reads the one of its position.         *)
parse_disjunction(self, pos) == self.disjunctions[pos + 1]

CapturingGroup(self, span_start, name, body, end) ==
    Some([type |-> "CapturingGroup",
          span |-> create(self, span_start, span_position(self, end)),
          name |-> name,
          body |-> body], end)

(* parse_capturing_group, were it to accept a group whose ")" is missing.  *)
parse_capturing_group_unclosed(self, pos) ==
    IF ~eat(self, pos, "(") THEN None(pos)
    ELSE IF eat(self, pos + 1, "?")
    THEN Let(consume_group_name(self, pos + 2), LAMBDA name :
         IF Raised(name) THEN name
         ELSE IF name.t = "none" THEN Err("Unterminated capturing group name", name.pos)
         ELSE
         Let(parse_disjunction(self, name.pos), LAMBDA disjunction :
             IF Raised(disjunction) THEN disjunction
             ELSE CapturingGroup(self, span_position(self, pos), SomeOpt(name.v), disjunction.v,
                                 advance(self, disjunction.pos))))
    ELSE Let(parse_disjunction(self, pos + 1), LAMBDA disjunction :
             IF Raised(disjunction) THEN disjunction
             ELSE CapturingGroup(self, span_position(self, pos), NoneOpt, disjunction.v,
                                 advance(self, disjunction.pos)))

parse_capturing_group(self, pos) ==
    IF ~eat(self, pos, "(") THEN None(pos)
    ELSE IF eat(self, pos + 1, "?")
    THEN Let(consume_group_name(self, pos + 2), LAMBDA name :
         IF Raised(name) THEN name
         ELSE IF name.t = "none" THEN Err("Unterminated capturing group name", name.pos)
         ELSE
         Let(parse_disjunction(self, name.pos), LAMBDA disjunction :
             IF Raised(disjunction) THEN disjunction
             ELSE IF eat(self, disjunction.pos, ")")
             THEN CapturingGroup(self, span_position(self, pos), SomeOpt(name.v), disjunction.v,
                                 disjunction.pos + 1)
             ELSE Err("Unterminated capturing group name", disjunction.pos)))
    ELSE Let(parse_disjunction(self, pos + 1), LAMBDA disjunction :
             IF Raised(disjunction) THEN disjunction
             ELSE IF eat(self, disjunction.pos, ")")
             THEN CapturingGroup(self, span_position(self, pos), NoneOpt, disjunction.v,
                                 disjunction.pos + 1)
             ELSE Err("Unterminated capturing group", disjunction.pos))

parse_ignore_group(self, pos) ==
    IF ~eat3(self, pos, "(", "?", ":") THEN None(pos)
    ELSE
    Let(parse_disjunction(self, pos + 3), LAMBDA disjunction :
        IF Raised(disjunction) THEN disjunction
        ELSE IF ~eat(self, disjunction.pos, ")")
        THEN Err("Unterminated ignore group", disjunction.pos)
        ELSE Some([type |-> "IgnoreGroup",
                   span |-> create(self, span_position(self, pos),
                                   span_position(self, disjunction.pos + 1)),
                   enabling_modifiers |-> NoneOpt,
                   disabling_modifiers |-> NoneOpt,
                   body |-> disjunction.v], disjunction.pos + 1))

(* The first half of parse_assertion: ^, $, \b, \B.                        *)
parse_assertion_boundary(self, pos) ==
    IF eat(self, pos, "^") THEN [kind |-> "Start", pos |-> pos + 1]
    ELSE IF eat(self, pos, "$") THEN [kind |-> "End", pos |-> pos + 1]
    ELSE IF eat2(self, pos, "\\", "b") THEN [kind |-> "Boundary", pos |-> pos + 2]
    ELSE IF eat2(self, pos, "\\", "B") THEN [kind |-> "NegativeBoundary", pos |-> pos + 2]
    ELSE [kind |-> "none", pos |-> pos]

(* The second half of parse_assertion: the opener of a lookaround.         *)
parse_assertion_lookaround(self, pos) ==
    IF eat3(self, pos, "(", "?", "=") THEN [kind |-> "Lookahead", pos |-> pos + 3]
    ELSE IF eat3(self, pos, "(", "?", "!")
    THEN [kind |-> "NegativeLookahead", pos |-> pos + 3]
    ELSE IF eat4(self, pos, "(", "?", "<", "=") THEN [kind |-> "Lookbehind", pos |-> pos + 4]
    ELSE IF eat4(self, pos, "(", "?", "<", "!")
    THEN [kind |-> "NegativeLookbehind", pos |-> pos + 4]
    ELSE [kind |-> "none", pos |-> pos]

parse_assertion(self, pos) ==
    Let(span_position(self, pos), LAMBDA span_start :
    Let(parse_assertion_boundary(self, pos), LAMBDA boundary :
        IF boundary.kind # "none"
        THEN Some([type |-> "BoundaryAssertion",
                   span |-> create(self, span_start, span_position(self, boundary.pos)),
                   kind |-> boundary.kind], boundary.pos)
        ELSE
        Let(parse_assertion_lookaround(self, pos), LAMBDA look :
            IF look.kind = "none" THEN None(pos)
            ELSE
            Let(parse_disjunction(self, look.pos), LAMBDA disjunction :
                IF Raised(disjunction) THEN disjunction
                ELSE IF ~eat(self, disjunction.pos, ")")
                THEN Err("Unterminated lookaround assertion", disjunction.pos)
                ELSE Some([type |-> "LookAroundAssertion",
                           span |-> create(self, span_start,
                                           span_position(self, disjunction.pos + 1)),
                           kind |-> look.kind,
                           body |-> disjunction.v], disjunction.pos + 1)))))

(* The tail of parse_atom_escape, were \k without a group name an          *)
(* identity escape outside unicode mode.                                   *)
parse_atom_escape_named_identity(self, pos, span_start) ==
    IF ~eat(self, pos, "k") THEN Err("Invalid atom escape", pos)
    ELSE
    Let(consume_group_name(self, pos + 1), LAMBDA name :
        IF Raised(name) /\ self.unicode_mode THEN name
        ELSE IF name.t = "some"
        THEN Some([type |-> "NamedReference",
                   span |-> create(self, span_start, span_position(self, name.pos)),
                   name |-> name.v], name.pos)
        ELSE IF self.unicode_mode
        THEN Err("Invalid named reference", name.pos)
        ELSE SomeCharacter(self, span_start, "Identifier", Code("k"), pos + 1))

(* The tail of parse_atom_escape: \k GroupName, or the error.              *)
parse_atom_escape_named(self, pos, span_start) ==
    IF ~eat(self, pos, "k") THEN Err("Invalid atom escape", pos)
    ELSE
    Let(consume_group_name(self, pos + 1), LAMBDA name :
        IF Raised(name) THEN name
        ELSE IF name.t = "some"
        THEN Some([type |-> "NamedReference",
                   span |-> create(self, span_start, span_position(self, name.pos)),
                   name |-> name.v], name.pos)
        ELSE Err("Invalid named reference", name.pos))

parse_atom_escape(self, pos, span_start) ==
    Let(consume_decimal_escape(self, pos), LAMBDA index :
        IF Raised(index) THEN index
        ELSE IF index.t = "some"
        THEN Some([type |-> "IndexedReference",
                   span |-> create(self, span_start, span_position(self, index.pos)),
                   index |-> index.v], index.pos)
        ELSE
        Let(parse_character_class_escape(self, index.pos, span_start), LAMBDA class_escape :
            IF class_escape.t = "some" THEN class_escape
            ELSE
            Let(parse_character_class_escape_unicode(self, class_escape.pos, span_start),
                LAMBDA property_escape :
                IF property_escape.t # "none" THEN property_escape
                ELSE
                Let(parse_character_escape(self, property_escape.pos, span_start),
                    LAMBDA character_escape :
                    IF character_escape.t # "none" THEN character_escape
                    ELSE parse_atom_escape_named(self, character_escape.pos,
                                                 span_start)))))

(* The tail both atom functions share: CharacterClass, (?: ), ( ).         *)
parse_atom_groups(self, pos) ==
    Let(parse_character_class(self, pos), LAMBDA character_class :
        IF character_class.t # "none" THEN character_class
        ELSE
        Let(parse_ignore_group(self, character_class.pos), LAMBDA ignore_group :
            IF ignore_group.t # "none" THEN ignore_group
            ELSE parse_capturing_group(self, ignore_group.pos)))

Dot(self, span_start, end) ==
    Some([type |-> "Dot", span |-> create(self, span_start, span_position(self, end))], end)

parse_atom(self, pos) ==
    Let(span_position(self, pos), LAMBDA span_start :
    Let(peek(self, pos), LAMBDA cp :
        IF cp # NoCp /\ ~is_syntax_character(cp)
        THEN SomeCharacter(self, span_start, "Symbol", cp, pos + 1)
        ELSE IF eat(self, pos, ".") THEN Dot(self, span_start, pos + 1)
        ELSE
        Let(IF eat(self, pos, "\\") THEN parse_atom_escape(self, pos + 1, span_start)
            ELSE None(pos), LAMBDA atom_escape :
            IF atom_escape.t # "none" THEN atom_escape
            ELSE parse_atom_groups(self, atom_escape.pos))))

(* The tail of parse_extended_atom: InvalidBracedQuantifier,               *)
(* ExtendedPatternCharacter.                                               *)
parse_extended_atom_tail(self, pos, span_start) ==
    Let(consume_quantifier(self, pos), LAMBDA quantifier :
        IF Raised(quantifier) THEN quantifier
        ELSE IF quantifier.t = "some" THEN Err("Invalid braced quantifier", quantifier.pos)
        ELSE
        Let(consume_extended_pattern_character(self, quantifier.pos), LAMBDA cp :
            IF cp.t = "some" THEN SomeCharacter(self, span_start, "Symbol", cp.v, cp.pos)
            ELSE None(cp.pos)))

parse_extended_atom(self, pos) ==
    Let(span_position(self, pos), LAMBDA span_start :
        IF eat(self, pos, ".") THEN Dot(self, span_start, pos + 1)
        ELSE IF eat(self, pos, "\\")
        THEN Let(parse_atom_escape(self, pos + 1, span_start), LAMBDA atom_escape :
             IF atom_escape.t # "none" THEN atom_escape
             ELSE IF peek(self, atom_escape.pos) = Code("c")
             THEN SomeCharacter(self, span_start, "Symbol", Code("\\"), atom_escape.pos)
             ELSE Err("Invalid escape", atom_escape.pos))
        ELSE
        Let(parse_atom_groups(self, pos), LAMBDA groups :
            IF groups.t # "none" THEN groups
            ELSE parse_extended_atom_tail(self, groups.pos, span_start)))

Quantifier(self, span_start, q, body) ==
    Some([type |-> "Quantifier",
          span |-> create(self, span_start, span_position(self, q.pos)),
          greedy |-> q.v.greedy,
          min |-> q.v.min,
          max |-> q.v.max,
          body |-> body], q.pos)

(* parse_term with [+UnicodeMode]: Assertion | Atom Quantifier | Atom      *)
parse_term_unicode(self, pos) ==
    Let(parse_assertion(self, pos), LAMBDA assertion :
        IF assertion.t # "none" THEN assertion
        ELSE
        Let(parse_atom(self, assertion.pos), LAMBDA atom :
            IF Raised(atom) THEN atom
            ELSE
            Let(consume_quantifier(self, atom.pos), LAMBDA quantifier :
                IF Raised(quantifier) THEN quantifier
                ELSE IF atom.t = "some" /\ quantifier.t = "some"
                THEN Quantifier(self, span_position(self, assertion.pos), quantifier, atom.v)
                ELSE IF atom.t = "some" THEN atom
                ELSE IF quantifier.t = "some"
                THEN Err("Lone 'Quantifier', expected 'Atom'", quantifier.pos)
                ELSE None(quantifier.pos))))

(* The Assertion branch of parse_term, were every lookaround quantifiable. *)
parse_term_annex_b_assertion_any_lookaround(self, span_start, assertion) ==
    IF assertion.v.type = "LookAroundAssertion"
    THEN Let(consume_quantifier(self, assertion.pos), LAMBDA quantifier :
         IF Raised(quantifier) THEN quantifier
         ELSE IF quantifier.t = "some"
         THEN Quantifier(self, span_start, quantifier, assertion.v)
         ELSE assertion)
    ELSE assertion

(* The Assertion branch of parse_term with [~UnicodeMode], were every      *)
(* assertion quantifiable.                                                 *)
parse_term_annex_b_assertion_any(self, span_start, assertion) ==
    Let(consume_quantifier(self, assertion.pos), LAMBDA quantifier :
        IF Raised(quantifier) THEN quantifier
        ELSE IF quantifier.t = "some"
        THEN Quantifier(self, span_start, quantifier, assertion.v)
        ELSE assertion)

(* The Assertion branch of parse_term with [~UnicodeMode]:                 *)
(* QuantifiableAssertion Quantifier | Assertion | QuantifiableAssertion    *)
parse_term_annex_b_assertion(self, span_start, assertion) ==
    IF /\ assertion.v.type = "LookAroundAssertion"
       /\ assertion.v.kind \in {"Lookahead", "NegativeLookahead"}
    THEN Let(consume_quantifier(self, assertion.pos), LAMBDA quantifier :
         IF Raised(quantifier) THEN quantifier
         ELSE IF quantifier.t = "some"
         THEN Quantifier(self, span_start, quantifier, assertion.v)
         ELSE assertion)
    ELSE assertion

(* parse_term with [~UnicodeMode] (Annex B)                                *)
parse_term_annex_b(self, pos) ==
    Let(span_position(self, pos), LAMBDA span_start :
    Let(parse_assertion(self, pos), LAMBDA assertion :
        IF Raised(assertion) THEN assertion
        ELSE IF assertion.t = "some"
        THEN parse_term_annex_b_assertion(self, span_start, assertion)
        ELSE
        Let(parse_extended_atom(self, assertion.pos), LAMBDA extended_atom :
            IF Raised(extended_atom) THEN extended_atom
            ELSE
            Let(consume_quantifier(self, extended_atom.pos), LAMBDA quantifier :
                IF Raised(quantifier) THEN quantifier
                ELSE IF extended_atom.t = "some" /\ quantifier.t = "some"
                THEN Quantifier(self, span_start, quantifier, extended_atom.v)
                ELSE IF extended_atom.t = "some" THEN extended_atom
                ELSE IF quantifier.t = "some"
                THEN Err("Lone 'Quantifier', expected 'ExtendedAtom'", quantifier.pos)
                ELSE None(quantifier.pos)))))

parse_term(self, pos) ==
    IF self.unicode_mode THEN parse_term_unicode(self, pos)
    ELSE parse_term_annex_b(self, pos)

RECURSIVE parse_alternative_loop_swallowing(_, _, _)
(* The term loop of parse_alternative, were it to end the alternative at   *)
(* an error of parse_term instead of returning it.                         *)
parse_alternative_loop_swallowing(self, pos, body) ==
    Let(parse_term(self, pos), LAMBDA term :
        IF term.t = "some"
        THEN parse_alternative_loop_swallowing(self, term.pos, Append(body, term.v))
        ELSE Ok(body, term.pos))

RECURSIVE parse_alternative_loop(_, _, _)
parse_alternative_loop(self, pos, body) ==
    Let(parse_term(self, pos), LAMBDA term :
        IF Raised(term) THEN term
        ELSE IF term.t = "some"
        THEN parse_alternative_loop(self, term.pos, Append(body, term.v))
        ELSE Ok(body, term.pos))

parse_alternative(self, pos) ==
    Let(parse_alternative_loop(self, pos, <<>>), LAMBDA body :
        IF Raised(body) THEN body
        ELSE Ok([type |-> "Alternative",
                 span |-> create(self, span_position(self, pos),
                                 span_position(self, body.pos)),
                 body |-> body.v], body.pos))

RECURSIVE parse_disjunction_loop(_, _, _)

(* The loop of parse_disjunction, were it to push only the alternatives    *)
(* that have a term.                                                       *)
parse_disjunction_loop_skipping_empty(self, pos, body) ==
    Let(parse_alternative(self, pos), LAMBDA alternative :
    Let(IF alternative.v.body = <<>> THEN body ELSE Append(body, alternative.v),
        LAMBDA pushed :
        IF Raised(alternative) THEN alternative
        ELSE IF eat(self, alternative.pos, "|")
        THEN parse_disjunction_loop(self, alternative.pos + 1, pushed)
        ELSE Ok(pushed, alternative.pos)))

parse_disjunction_loop(self, pos, body) ==
    Let(parse_alternative(self, pos), LAMBDA alternative :
        IF Raised(alternative) THEN alternative
        ELSE IF eat(self, alternative.pos, "|")
        THEN parse_disjunction_loop(self, alternative.pos + 1, Append(body, alternative.v))
        ELSE Ok(Append(body, alternative.v), alternative.pos))

parse_disjunction_body(self, pos) ==
    Let(parse_disjunction_loop(self, pos, <<>>), LAMBDA body :
        IF Raised(body) THEN body
        ELSE Ok([type |-> "Disjunction",
                 span |-> create(self, span_position(self, pos),
                                 span_position(self, body.pos)),
                 body |-> body.v], body.pos))

(* The results of parse_disjunction at every reader position, given the    *)
(* ones of the positions after pos (later): the entry of a position is     *)
(* computed with the entries of the later positions at hand.               *)
RECURSIVE parse_disjunctions(_, _, _)
parse_disjunctions(self, pos, later) ==
    IF pos < 0 \/ Len(later) # Len(self.reader_text) - pos THEN later
    ELSE parse_disjunctions(self, pos - 1,
             <<parse_disjunction_body(
                   [self EXCEPT !.disjunctions = [i \in 1..pos + 1 |-> None(i)] \o later],
                   pos)>> \o later)

with_disjunctions(self) ==
    [self EXCEPT !.disjunctions = parse_disjunctions(self, Len(self.reader_text), <<>>)]

-----------------------------------------------------------------------------
(* PatternParser::new and PatternParser::parse.                            *)

Reader_new(text, unicode_mode) == text

PatternParser_new(text, opts) ==
    LET unicode_mode == opts.unicode_flag \/ opts.unicode_sets_flag
        unicode_sets_mode == opts.unicode_sets_flag
    IN  [source_text |-> text,
         span_offset |-> opts.span_offset,
         reader_text |-> Reader_new(text, unicode_mode),
         reader_pos |-> 0,
         unicode_mode |-> unicode_mode,
         unicode_sets_mode |-> unicode_sets_mode,
         overflow_checks |-> FALSE,
         disjunctions |-> <<>>]

EmptyPattern == <<"(", "?", ":", ")">>

str_len(text) == byte_offset(text, Len(text))

parse_source_text(self) ==
    IF Len(self.source_text) = 0 THEN EmptyPattern ELSE self.source_text

(* parse, were it to return the Disjunction without looking for leftover   *)
(* input.                                                                  *)
parse_ignoring_rest(self) ==
    Let(with_disjunctions([self EXCEPT !.source_text = parse_source_text(self)]),
        LAMBDA self2 :
    Let(parse_disjunction(self2, self2.reader_pos), LAMBDA disjunction :
        IF Raised(disjunction) THEN disjunction
        ELSE Ok([type |-> "Pattern",
                 span |-> create(self2, 0, str_len(self2.source_text)),
                 body |-> disjunction.v], disjunction.pos)))

parse(self) ==
    Let(with_disjunctions([self EXCEPT !.source_text = parse_source_text(self)]),
        LAMBDA self2 :
    Let(parse_disjunction(self2, self2.reader_pos), LAMBDA disjunction :
        IF Raised(disjunction) THEN disjunction
        ELSE IF peek(self2, disjunction.pos) # NoCp
        THEN Err("Could not parse the entire pattern", disjunction.pos)
        ELSE Ok([type |-> "Pattern",
                 span |-> create(self2, 0, str_len(self2.source_text)),
                 body |-> disjunction.v], disjunction.pos)))

(* The entry point: parse(allocator, source_text, options).                *)
Parsed(text, opts) == parse(PatternParser_new(text, opts))

-----------------------------------------------------------------------------
(* The state machine: a caller constructs a parser over its source text    *)
(* and options, in a build with or without overflow checks, then calls     *)
(* parse once.                                                             *)

NoParser == [source_text |-> <<>>, span_offset |-> 0, reader_text |-> <<>>,
             reader_pos |-> 0, unicode_mode |-> FALSE, unicode_sets_mode |-> FALSE,
             overflow_checks |-> FALSE, disjunctions |-> <<>>]

NoResult == [t |-> "pending", pos |-> 0]

RECURSIVE Flatten(_)
Flatten(ss) == IF ss = <<>> THEN <<>> ELSE Head(ss) \o Flatten(Tail(ss))

(* Every source text made of at most n of the given fragments.             *)
TextsOf(fragments, n) ==
    {Flatten(fs) : fs \in UNION {[1..k -> fragments] : k \in 0..n}}

AllOptions ==
    [unicode_flag : BOOLEAN, unicode_sets_flag : BOOLEAN, span_offset : {0}]

InitWith(texts) ==
    /\ source_text \in texts
    /\ options \in AllOptions
    /\ parser = NoParser
    /\ result = NoResult
    /\ pc = "new"

New ==
    /\ pc = "new"
    /\ \E checks \in BOOLEAN :
           parser' = [PatternParser_new(source_text, options)
                          EXCEPT !.overflow_checks = checks]
    /\ pc' = "constructed"
    /\ UNCHANGED <<source_text, options, result>>

Parse ==
    /\ pc = "constructed"
    /\ result' = parse(parser)
    /\ parser' = [parser EXCEPT !.source_text = parse_source_text(parser),
                                !.reader_pos = result'.pos]
    /\ pc' = "done"
    /\ UNCHANGED <<source_text, options>>

Next == New \/ Parse

-----------------------------------------------------------------------------
(* Specifications: the same machine over different families of inputs.     *)

Cat(A, B) == {a \o b : a \in A, b \in B}

(* Spec: groups, lookarounds, stray closers, escapes, in every order.      *)
MaxFragments == 3

Fragments ==
    {<<"a">>, <<"|">>, <<"*">>, <<"(">>, <<")">>, <<"[">>, <<"]">>, <<"}">>,
     <<"\\">>, <<"0">>,
     <<"(", "?", ":">>, <<"(", "?", "=">>, <<"(", "?", "!">>,
     <<"(", "?", "<", "=">>, <<"(", "?", "<", "!">>, <<"(", "?", "<", "n", ">">>}

Init == InitWith(TextsOf(Fragments, MaxFragments))

Spec == Init /\ [][Next]_vars

(* SpecLookaround: a lookaround, closed, then nothing, a quantifier or an  *)
(* atom.                                                                   *)
MaxLookBody == 2

Lookarounds ==
    {[text |-> <<"(", "?", "=">>, kind |-> "Lookahead", behind |-> FALSE],
     [text |-> <<"(", "?", "!">>, kind |-> "NegativeLookahead", behind |-> FALSE],
     [text |-> <<"(", "?", "<", "=">>, kind |-> "Lookbehind", behind |-> TRUE],
     [text |-> <<"(", "?", "<", "!">>, kind |-> "NegativeLookbehind", behind |-> TRUE]}

LookBodies == TextsOf({<<"a">>, <<"|">>}, MaxLookBody)

QuantifierTexts ==
    Cat({<<"*">>, <<"+">>, <<"?">>, <<"{", "1", "}">>, <<"{", "1", ",", "}">>,
         <<"{", "1", ",", "2", "}">>},
        {<<>>, <<"?">>})

InitLookaround ==
    InitWith(Cat({o.text : o \in Lookarounds},
                 Cat(LookBodies,
                     Cat({<<")">>}, {<<>>, <<"a">>} \cup QuantifierTexts))))

SpecLookaround == InitLookaround /\ [][Next]_vars

(* SpecQuantifier: an atom followed by {n,m}, greedy or lazy.              *)
MaxDigits == 2

QuantifiedAtoms == {<<"a">>, <<".">>, <<"(", "a", ")">>}

DigitStrings == TextsOf({<<"0">>, <<"1">>, <<"2">>}, MaxDigits) \ {<<>>}

InitQuantifier ==
    InitWith(Cat(QuantifiedAtoms,
                 Cat({<<"{">>},
                     Cat(DigitStrings,
                         Cat({<<",">>},
                             Cat(DigitStrings, {<<"}">>, <<"}", "?">>}))))))

SpecQuantifier == InitQuantifier /\ [][Next]_vars

(* SpecClass: one character class, closed or not.                          *)
MaxClassItems == 4

ClassItems == {<<"a">>, <<"m">>, <<"z">>, <<"-">>, <<"\\", "d">>}

InitClass ==
    InitWith(Cat({<<"[">>}, Cat(TextsOf(ClassItems, MaxClassItems), {<<>>, <<"]">>})))

SpecClass == InitClass /\ [][Next]_vars

(* SpecAlternation: alternatives and groups.                               *)
MaxAlternationItems == 5

AlternationItems == {<<"a">>, <<"b">>, <<"|">>, <<"(">>, <<")">>}

InitAlternation == InitWith(TextsOf(AlternationItems, MaxAlternationItems))

SpecAlternation == InitAlternation /\ [][Next]_vars

(* SpecGroupName: some characters, then one named group.                   *)
MaxGroupPrefix == 2

MaxGroupName == 2

GroupNameCases ==
    [prefix : TextsOf({<<"a">>, <<EAcute>>}, MaxGroupPrefix),
     name : TextsOf({<<"n">>, <<"1">>, <<EAcute>>}, MaxGroupName) \ {<<>>},
     body : {<<>>, <<"a">>}]

GroupNameText(c) ==
    c.prefix \o <<"(", "?", "<">> \o c.name \o <<">">> \o c.body \o <<")">>

InitGroupName == InitWith({GroupNameText(c) : c \in GroupNameCases})

SpecGroupName == InitGroupName /\ [][Next]_vars

(* SpecSurrogate: \uXXXX escapes in a row, surrogates or not.              *)
MaxEscapes == 2

HexQuads ==
    {[digits |-> <<"d", "8", "0", "0">>, value |-> 55296],
     [digits |-> <<"d", "8", "3", "d">>, value |-> 55357],
     [digits |-> <<"D", "B", "F", "F">>, value |-> 56319],
     [digits |-> <<"d", "c", "0", "0">>, value |-> 56320],
     [digits |-> <<"d", "e", "0", "0">>, value |-> 56832],
     [digits |-> <<"D", "F", "F", "F">>, value |-> 57343],
     [digits |-> <<"d", "7", "f", "f">>, value |-> 55295],
     [digits |-> <<"e", "0", "0", "0">>, value |-> 57344],
     [digits |-> <<"0", "0", "4", "1">>, value |-> 65]}

EscapeText(q) == <<"\\", "u">> \o q.digits

InitSurrogate == InitWith(TextsOf({EscapeText(q) : q \in HexQuads}, MaxEscapes))

SpecSurrogate == InitSurrogate /\ [][Next]_vars

(* SpecClassSet: terms, then the opener of a character class, then class   *)
(* items, with or without the closer among them.                           *)
MaxClassSetItems == 3

ClassSetCases ==
    [prefix : {<<>>, <<"a">>, <<"[", "]">>, <<"(">>, <<"a", "|">>},
     opener : {<<"[">>, <<"[", "^">>},
     rest : TextsOf({<<"a">>, <<"-">>, <<"]">>, <<"^">>, <<"\\", "d">>},
                    MaxClassSetItems)]

ClassSetText(c) == c.prefix \o c.opener \o c.rest

InitClassSet == InitWith({ClassSetText(c) : c \in ClassSetCases})

SpecClassSet == InitClassSet /\ [][Next]_vars

(* SpecSpans: terms of every kind, ASCII or not, under two span offsets.   *)
MaxSpanFragments == 3

SpanFragments ==
    {<<"a">>, <<EAcute>>, <<"|">>, <<"*">>, <<"(">>, <<")">>, <<"[">>, <<"]">>,
     <<"-">>, <<"\\">>, <<"(", "?", ":">>, <<"(", "?", "=">>,
     <<"(", "?", "<", "n", ">">>}

SpanOffsets == {0, 7}

InitSpans ==
    /\ source_text \in TextsOf(SpanFragments, MaxSpanFragments)
    /\ options \in [unicode_flag : BOOLEAN, unicode_sets_flag : BOOLEAN,
                    span_offset : SpanOffsets]
    /\ parser = NoParser
    /\ result = NoResult
    /\ pc = "new"

SpecSpans == InitSpans /\ [][Next]_vars

(* SpecControl: \c after nothing or a character, then some characters.     *)
MaxControlTail == 2

ControlCases ==
    [prefix : {<<>>, <<"a">>},
     tail : TextsOf({<<"1">>, <<"a">>, <<"A">>, <<"*">>, <<"c">>, <<"-">>, <<"\\">>},
                    MaxControlTail)]

ControlText(c) == c.prefix \o <<"\\", "c">> \o c.tail

InitControl == InitWith({ControlText(c) : c \in ControlCases})

SpecControl == InitControl /\ [][Next]_vars

(* SpecOctal: a backslash and a run of digits, as a term or as the only    *)
(* atom of a character class.                                              *)
MaxOctalDigits == 3

OctalCases ==
    [class : BOOLEAN,
     digits : TextsOf({<<"0">>, <<"1">>, <<"3">>, <<"4">>, <<"7">>, <<"8">>},
                      MaxOctalDigits) \ {<<>>}]

OctalText(c) ==
    IF c.class THEN <<"[", "\\">> \o c.digits \o <<"]">> ELSE <<"\\">> \o c.digits

InitOctal == InitWith({OctalText(c) : c \in OctalCases})

SpecOctal == InitOctal /\ [][Next]_vars

(* SpecClassRange: one class holding A-B, A and B characters or escapes,   *)
(* with one character or none before and after.                            *)
MaxRangeAround == 1

ClassRangeAtoms ==
    {[text |-> <<"a">>, type |-> "Character", value |-> 97],
     [text |-> <<"z">>, type |-> "Character", value |-> 122],
     [text |-> <<"\\", "n">>, type |-> "Character", value |-> 10],
     [text |-> <<"\\", "d">>, type |-> "CharacterClassEscape", value |-> 0],
     [text |-> <<"\\", "W">>, type |-> "CharacterClassEscape", value |-> 0],
     [text |-> <<"\\", "p", "{", "L", "}">>, type |-> "UnicodePropertyEscape",
      value |-> 0],
     [text |-> <<"\\", "P", "{", "s", "c", "=", "L", "a", "t", "n", "}">>,
      type |-> "UnicodePropertyEscape", value |-> 0]}

(* What stands around A-B: characters, with a "-" only where it is a       *)
(* literal next to the bracket, so that A and B are the ends the parser    *)
(* sees.                                                                   *)
RangeAround == TextsOf({<<"a">>, <<"-">>}, MaxRangeAround)

ClassRangeCases ==
    [before : {t \in RangeAround : \A i \in 2..Len(t) : t[i] # "-"},
     from : ClassRangeAtoms,
     to : ClassRangeAtoms,
     after : {t \in RangeAround : \A i \in 1..Len(t) - 1 : t[i] # "-"}]

ClassRangeText(c) ==
    <<"[">> \o c.before \o c.from.text \o <<"-">> \o c.to.text \o c.after \o <<"]">>

InitClassRange == InitWith({ClassRangeText(c) : c \in ClassRangeCases})

SpecClassRange == InitClassRange /\ [][Next]_vars

(* SpecBrace: some terms, then "{" and what follows it, a complete braced  *)
(* quantifier or not.                                                      *)
MaxBraceItems == 3

BracePrefixes ==
    {<<>>, <<"a">>, <<".">>, <<"a", "*">>, <<"a", "*", "?">>, <<"(", "a", ")">>, <<"(">>,
     <<"a", "|">>, <<"^">>, <<"\\", "d">>, <<"(", "?", "=", "a", ")">>,
     <<"(", "?", "<", "=", "a", ")">>}

BraceCases ==
    [prefix : BracePrefixes,
     rest : TextsOf({<<"1">>, <<"2">>, <<",">>, <<"}">>, <<"a">>}, MaxBraceItems)]

BraceText(c) == c.prefix \o <<"{">> \o c.rest

InitBrace == InitWith({BraceText(c) : c \in BraceCases})

SpecBrace == InitBrace /\ [][Next]_vars

(* SpecQuantifierPrefix: an atom, a quantifier prefix, "?" or not, then    *)
(* nothing or another term.                                                *)
MaxPrefixDigits == 2

PrefixDigitRuns == TextsOf({<<"0">>, <<"1">>, <<"9">>}, MaxPrefixDigits) \ {<<>>}

QuantifierPrefixCases ==
    [atom : {<<"a">>, <<".">>, <<"(", "a", ")">>, <<"\\", "d">>},
     prefix : {<<"*">>, <<"+">>, <<"?">>}
                  \cup Cat({<<"{">>}, Cat(PrefixDigitRuns, {<<"}">>, <<",", "}">>})),
     lazy : BOOLEAN,
     tail : {<<>>, <<"a">>, <<"a", "?">>}]

QuantifierPrefixText(c) ==
    c.atom \o c.prefix \o (IF c.lazy THEN <<"?">> ELSE <<>>) \o c.tail

InitQuantifierPrefix == InitWith({QuantifierPrefixText(c) : c \in QuantifierPrefixCases})

SpecQuantifierPrefix == InitQuantifierPrefix /\ [][Next]_vars

(* SpecQuantified: one term of each kind, then quantifier prefixes in a    *)
(* row, then nothing or one more term.                                     *)
MaxQuantifiers == 2

QuantifiedTerms ==
    {<<"a">>, <<".">>, <<"\\", "d">>, <<"\\", "1">>, <<"(", "a", ")">>,
     <<"(", "?", ":", "a", ")">>, <<"(", "a", "*", ")">>,
     <<"^">>, <<"$">>, <<"\\", "b">>, <<"\\", "B">>,
     <<"(", "?", "=", "a", ")">>, <<"(", "?", "!", "a", ")">>,
     <<"(", "?", "<", "=", "a", ")">>, <<"(", "?", "<", "!", "a", ")">>,
     <<"(", "?", "=", "a", "*", ")">>}

QuantifiedCases ==
    [term : QuantifiedTerms,
     quantifiers : TextsOf({<<"*">>, <<"+">>, <<"?">>, <<"{", "1", "}">>}, MaxQuantifiers),
     tail : {<<>>, <<"a">>}]

QuantifiedText(c) == c.term \o c.quantifiers \o c.tail

InitQuantified == InitWith({QuantifiedText(c) : c \in QuantifiedCases})

SpecQuantified == InitQuantified /\ [][Next]_vars

(* SpecLoneSurrogate: the escape of a lead surrogate, then pieces that may *)
(* or may not make the escape of a trail surrogate.                        *)
MaxAfterLead == 2

AfterLeadPieces ==
    {<<"a">>, <<"\\", "u">>, <<"d", "e", "0">>, <<"d", "e", "0", "0">>,
     <<"0", "0", "4", "1">>, <<"d", "8", "3", "d">>, <<"{", "4", "1", "}">>}

LoneSurrogateCases ==
    [lead : {q \in HexQuads : is_lead_surrogate(q.value)},
     tail : TextsOf(AfterLeadPieces, MaxAfterLead)]

LoneSurrogateText(c) == EscapeText(c.lead) \o c.tail

InitLoneSurrogate == InitWith({LoneSurrogateText(c) : c \in LoneSurrogateCases})

SpecLoneSurrogate == InitLoneSurrogate /\ [][Next]_vars

(* SpecProperty: \p or \P, a braced property expression, closed or not,    *)
(* then some characters.                                                   *)
MaxPropertyTail == 1

PropertyExpressions ==
    {<<"L">>, <<"L", "u">>, <<"g", "c", "=", "L">>, <<"s", "c", "=", "L", "a", "t", "n">>,
     <<"A", "n", "y">>, <<"A", "S", "C", "I", "I">>,
     <<"R", "G", "I", "_", "E", "m", "o", "j", "i">>,
     <<"B", "a", "s", "i", "c", "_", "E", "m", "o", "j", "i">>,
     <<"X">>, <<"s", "c", "=", "L">>, <<"L", "=">>, <<>>}

PropertyCases ==
    [letter : {"p", "P"},
     expression : PropertyExpressions,
     closed : BOOLEAN,
     tail : TextsOf({<<"a">>, <<"}">>}, MaxPropertyTail)]

PropertyText(c) ==
    <<"\\", c.letter, "{">> \o c.expression \o (IF c.closed THEN <<"}">> ELSE <<>>)
        \o c.tail

InitProperty == InitWith({PropertyText(c) : c \in PropertyCases})

SpecProperty == InitProperty /\ [][Next]_vars

(* SpecWideQuantifier: an atom and a braced quantifier whose digit runs    *)
(* are around the end of the u32 range (2^32 - 1 = 4294967295), with       *)
(* leading zeros or not.                                                   *)
MaxLeadingZeros == 1

WideDigitRuns ==
    Cat(TextsOf({<<"0">>}, MaxLeadingZeros),
        {<<"0">>, <<"1">>,
         <<"4", "2", "9", "4", "9", "6", "7", "2", "9", "5">>,
         <<"4", "2", "9", "4", "9", "6", "7", "2", "9", "6">>,
         <<"8", "5", "8", "9", "9", "3", "4", "5", "9", "3">>})

WideQuantifierCases ==
    [min : WideDigitRuns, max : WideDigitRuns \cup {<<>>}, comma : BOOLEAN]

WideQuantifierText(c) ==
    <<"a", "{">> \o c.min \o (IF c.comma THEN <<",">> ELSE <<>>) \o c.max \o <<"}">>

InitWideQuantifier == InitWith({WideQuantifierText(c) : c \in WideQuantifierCases})

SpecWideQuantifier == InitWideQuantifier /\ [][Next]_vars

(* SpecNamedReference: a named group or none, then \k and what follows it  *)
(* (a group name, well-formed or not), then literal characters.            *)
MaxReferenceTail == 1

ReferenceHeads ==
    {<<>>, <<"(", "?", "<", "n", ">", "a", ")">>, <<"(", "?", "<", "m", ">", "a", ")">>,
     <<"(", "a", ")">>}

WellFormedNames == {<<"n">>, <<"n", "1">>, <<"$", "_">>}

AfterK ==
    Cat({<<"<">>}, Cat(WellFormedNames, {<<">">>}))
        \cup {<<>>, <<"<">>, <<"<", ">">>, <<"<", "n">>, <<"<", "1", ">">>, <<"<", "n", "-", ">">>,
              <<"n">>, <<">">>, <<"{", "n", "}">>}

NamedReferenceCases ==
    [head : ReferenceHeads, after : AfterK, tail : TextsOf({<<"a">>}, MaxReferenceTail)]

NamedReferenceText(c) == c.head \o <<"\\", "k">> \o c.after \o c.tail

InitNamedReference == InitWith({NamedReferenceText(c) : c \in NamedReferenceCases})

SpecNamedReference == InitNamedReference /\ [][Next]_vars

(* SpecClassControl: a character class, negated or not, that holds \c and  *)
(* an ASCII letter between literal characters.                             *)
MaxClassControlAround == 1

ClassControlCases ==
    [negative : BOOLEAN,
     before : TextsOf({<<"a">>}, MaxClassControlAround),
     letter : {"A", "M", "Z", "a", "z"},
     after : TextsOf({<<"b">>}, MaxClassControlAround)]

ClassControlText(c) ==
    (IF c.negative THEN <<"[", "^">> ELSE <<"[">>)
        \o c.before \o <<"\\", "c", c.letter>> \o c.after \o <<"]">>

InitClassControl == InitWith({ClassControlText(c) : c \in ClassControlCases})

SpecClassControl == InitClassControl /\ [][Next]_vars

-----------------------------------------------------------------------------
(* What the claims speak of.                                               *)

Done == pc = "done"

Succeeded == Done /\ result.t = "ok"

Failed(msg) == Done /\ result.t = "err" /\ result.msg = msg

(* The parser as the caller constructed it, cursor at the start.           *)
Fresh ==
    with_disjunctions([PatternParser_new(source_text, options)
                           EXCEPT !.overflow_checks = parser.overflow_checks])

(* The terms of the only alternative of a pattern (<<>> if not just one).  *)
OnlyTerms(pattern) ==
    IF Len(pattern.body.body) = 1 THEN pattern.body.body[1].body ELSE <<>>

(* The term types of a pattern, alternative by alternative.                *)
ShapeOf(pattern) ==
    [i \in 1..Len(pattern.body.body) |->
        [j \in 1..Len(pattern.body.body[i].body) |-> pattern.body.body[i].body[j].type]]

ChildrenOf(n) ==
    IF n.type \in {"Pattern", "CapturingGroup", "IgnoreGroup", "LookAroundAssertion",
                   "Quantifier"}
    THEN <<n.body>>
    ELSE IF n.type \in {"Disjunction", "Alternative", "CharacterClass"} THEN n.body
    ELSE IF n.type = "CharacterClassRange" THEN <<n.min, n.max>>
    ELSE <<>>

(* Every node of a tree, parents first.                                    *)
RECURSIVE NodesOf(_)
NodesOf(n) ==
    <<n>> \o Flatten([i \in 1..Len(ChildrenOf(n)) |-> NodesOf(ChildrenOf(n)[i])])

StartsWith(text, prefix) ==
    Len(text) >= Len(prefix) /\ SubSeq(text, 1, Len(prefix)) = prefix

-----------------------------------------------------------------------------
(* C1: parsing the empty pattern succeeds and gives a Pattern of the same  *)
(* shape as parsing "(?:)" with the same options: one Alternative whose    *)
(* only Term is an IgnoreGroup with an empty body.                         *)
C1_EmptyPatternIsEmptyGroup ==
    (Done /\ source_text = <<>>) =>
        /\ result.t = "ok"
        /\ ShapeOf(result.v) = ShapeOf(Parsed(EmptyPattern, options).v)
        /\ ShapeOf(result.v) = << <<"IgnoreGroup">> >>

(* C2: the pattern \0 parses, in either mode, to the one term              *)
(* Character{kind: Null, value: 0}, and no parsed tree holds an            *)
(* IndexedReference of index 0.                                            *)
C2_NullEscape ==
    Done =>
        /\ source_text = <<"\\", "0">> =>
              /\ result.t = "ok"
              /\ OnlyTerms(result.v) = <<Character(create(Fresh, 0, 2), "Null", 0)>>
        /\ result.t = "ok" =>
              \A i \in 1..Len(NodesOf(result.v)) :
                  NodesOf(result.v)[i].type = "IndexedReference"
                      => NodesOf(result.v)[i].index # 0

(* C3: parse returns Ok only with the reader at the end of its input, and  *)
(* whenever the top-level Disjunction leaves input unconsumed (a stray ")" *)
(* in either mode, "]" or "}" in unicode mode) parse returns "Could not    *)
(* parse the entire pattern".                                              *)
C3_EntirePattern ==
    Done =>
        /\ result.t = "ok" => result.pos = Len(source_text)
        /\ Let(parse_disjunction(Fresh, 0), LAMBDA disjunction :
               (disjunction.t = "ok" /\ disjunction.pos < Len(source_text))
                   => Failed("Could not parse the entire pattern"))
        /\ source_text \in {<<")">>, <<"a", ")">>}
              => Failed("Could not parse the entire pattern")
        /\ (Fresh.unicode_mode /\ source_text \in {<<"]">>, <<"}">>, <<"a", "]">>})
              => Failed("Could not parse the entire pattern")

C3_Witness ==
    /\ Failed("Could not parse the entire pattern")
    /\ source_text = <<"a", "]">>
    /\ options.unicode_flag

(* C4: an unclosed character class such as [a fails with the               *)
(* "Unterminated character class" diagnostic.                              *)
C4_UnclosedClass ==
    (Done /\ source_text = <<"[", "a">> /\ ~options.unicode_sets_flag)
        => Failed("Unterminated character class")

(* C5: when the nested Disjunction of a group or lookaround opener is      *)
(* parsed and the next character is not ")" (or the input has ended),      *)
(* parse fails with that construct's "Unterminated ..." error, in every    *)
(* mode.                                                                   *)
Openers ==
    {[text |-> <<"(">>, msg |-> "Unterminated capturing group"],
     [text |-> <<"(", "?", "<", "n", ">">>, msg |-> "Unterminated capturing group name"],
     [text |-> <<"(", "?", ":">>, msg |-> "Unterminated ignore group"],
     [text |-> <<"(", "?", "=">>, msg |-> "Unterminated lookaround assertion"],
     [text |-> <<"(", "?", "!">>, msg |-> "Unterminated lookaround assertion"],
     [text |-> <<"(", "?", "<", "=">>, msg |-> "Unterminated lookaround assertion"],
     [text |-> <<"(", "?", "<", "!">>, msg |-> "Unterminated lookaround assertion"]}

C5_UnclosedGroup ==
    Done =>
        \A o \in Openers : \A prefix \in {<<>>, <<"a">>} :
            StartsWith(source_text, prefix \o o.text) =>
                Let(parse_disjunction(Fresh, Len(prefix) + Len(o.text)), LAMBDA body :
                    (body.t = "ok" /\ peek(Fresh, body.pos) # Code(")"))
                        => Failed(o.msg))

C5_Witness ==
    /\ Failed("Unterminated lookaround assertion")
    /\ source_text = <<"(", "?", "<", "=", "a", "]">>
    /\ options.unicode_flag

(* C6: the second star of a** makes parse fail, in unicode and in          *)
(* non-unicode mode, with one of the two lone-quantifier errors.           *)
C6_LoneQuantifier ==
    (Done /\ source_text = <<"a", "*", "*">>) =>
        \/ Failed("Lone 'Quantifier', expected 'Atom'")
        \/ Failed("Lone 'Quantifier', expected 'ExtendedAtom'")

(* C7: a closed lookbehind alone parses in every mode and a quantifier     *)
(* right after it makes parse fail in every mode; a closed lookahead with  *)
(* a quantifier right after it parses exactly when neither unicode_flag    *)
(* nor unicode_sets_flag is set, and then to a Quantifier whose body is    *)
(* that LookAroundAssertion.                                               *)
C7_LookaroundQuantifier ==
    Done =>
        \A o \in Lookarounds : \A b \in LookBodies :
            /\ (o.behind /\ source_text = o.text \o b \o <<")">>) =>
                  /\ result.t = "ok"
                  /\ ShapeOf(result.v) = << <<"LookAroundAssertion">> >>
                  /\ OnlyTerms(result.v)[1].kind = o.kind
            /\ \A q \in QuantifierTexts :
                  source_text = o.text \o b \o <<")">> \o q =>
                      IF o.behind THEN result.t = "err"
                      ELSE /\ result.t = "ok"
                                <=> (~options.unicode_flag /\ ~options.unicode_sets_flag)
                           /\ result.t = "ok" =>
                                /\ ShapeOf(result.v) = << <<"Quantifier">> >>
                                /\ OnlyTerms(result.v)[1].body.type = "LookAroundAssertion"
                                /\ OnlyTerms(result.v)[1].body.kind = o.kind

C7_Witness ==
    /\ Succeeded
    /\ source_text = <<"(", "?", "!", "a", ")", "+">>
    /\ ~options.unicode_flag /\ ~options.unicode_sets_flag
    /\ ShapeOf(result.v) = << <<"Quantifier">> >>

(* The mathematical value of a run of decimal digits.                      *)
RECURSIVE DecimalValue(_)
DecimalValue(digits) ==
    IF digits = <<>> THEN 0
    ELSE 10 * DecimalValue(SubSeq(digits, 1, Len(digits) - 1))
            + (Code(digits[Len(digits)]) - Code("0"))

AllDigits(text) ==
    text # <<>> /\ \A i \in 1..Len(text) : text[i] \in {"0", "1", "2", "3", "4", "5", "6", "7", "8", "9"}

(* The ways to read a text as  atom { n , m }  or  atom { n , m } ?        *)
BracedQuantifiers(text) ==
    {p \in (1..Len(text)) \X (1..Len(text)) \X (1..Len(text)) :
        /\ text[p[1]] = "{" /\ text[p[2]] = "," /\ text[p[3]] = "}"
        /\ p[1] < p[2] /\ p[2] < p[3]
        /\ SubSeq(text, 1, p[1] - 1) \in QuantifiedAtoms
        /\ AllDigits(SubSeq(text, p[1] + 1, p[2] - 1))
        /\ AllDigits(SubSeq(text, p[2] + 1, p[3] - 1))
        /\ SubSeq(text, p[3] + 1, Len(text)) \in {<<>>, <<"?">>}}

(* C8: for an atom followed by {n,m}: if m < n parse fails with "Numbers   *)
(* out of order in braced quantifier", otherwise the only term is a        *)
(* Quantifier with min = n and max = Some(m).                              *)
C8_BracedQuantifier ==
    Done =>
        \A p \in BracedQuantifiers(source_text) :
            Let(DecimalValue(SubSeq(source_text, p[1] + 1, p[2] - 1)), LAMBDA n :
            Let(DecimalValue(SubSeq(source_text, p[2] + 1, p[3] - 1)), LAMBDA m :
                IF m < n THEN Failed("Numbers out of order in braced quantifier")
                ELSE /\ result.t = "ok"
                     /\ ShapeOf(result.v) = << <<"Quantifier">> >>
                     /\ OnlyTerms(result.v)[1].min = n
                     /\ OnlyTerms(result.v)[1].max = SomeOpt(m)))

C8_Witness ==
    /\ Failed("Numbers out of order in braced quantifier")
    /\ source_text = <<"a", "{", "1", "0", ",", "2", "}">>

PlainClassCharacters == {"a", "m", "z"}

(* What C9 says of the class [x-y] of two plain characters.                *)
RangeOfTwo(x, y) ==
    source_text = <<"[", x, "-", y, "]">> =>
        IF Code(y) < Code(x) THEN Failed("Character class range out of order")
        ELSE /\ result.t = "ok"
             /\ ShapeOf(result.v) = << <<"CharacterClass">> >>
             /\ Let(OnlyTerms(result.v)[1].body, LAMBDA body :
                    /\ Len(body) = 1
                    /\ body[1].type = "CharacterClassRange"
                    /\ body[1].min.type = "Character" /\ body[1].min.value = Code(x)
                    /\ body[1].max.type = "Character" /\ body[1].max.value = Code(y))

RangesOrdered ==
    result.t = "ok" =>
        Let(NodesOf(result.v), LAMBDA nodes :
            \A i \in 1..Len(nodes) :
                nodes[i].type = "CharacterClassRange"
                    => nodes[i].max.value >= nodes[i].min.value)

(* C9 as stated: in every parsed tree each CharacterClassRange has         *)
(* max.value >= min.value; [x-y] of two plain characters fails with        *)
(* "Character class range out of order" when y is below x and otherwise    *)
(* has exactly the one CharacterClassRange{min: x, max: y} as its body.    *)
C9_ClassRange_AnyMode ==
    Done =>
        /\ RangesOrdered
        /\ \A x \in PlainClassCharacters : \A y \in PlainClassCharacters : RangeOfTwo(x, y)

(* C9, amended: the same, the second half only when unicode_sets_flag is   *)
(* not set (with it, every non-empty class is unsupported).                *)
C9_ClassRange ==
    Done =>
        /\ RangesOrdered
        /\ ~options.unicode_sets_flag =>
              \A x \in PlainClassCharacters : \A y \in PlainClassCharacters :
                  RangeOfTwo(x, y)

C9_Witness ==
    /\ Failed("Character class range out of order")
    /\ source_text = <<"[", "z", "-", "a", "]">>
    /\ ~options.unicode_sets_flag

(* The number of "(" still open before position i of a text that has no    *)
(* classes and no escapes.                                                 *)
Depth(text, i) ==
    Cardinality({j \in 1..(i - 1) : text[j] = "("})
        - Cardinality({j \in 1..(i - 1) : text[j] = ")"})

(* The "|" of text[start+1..end] at the nesting level of start.            *)
BarsAtLevel(text, start, end) ==
    Cardinality({i \in (start + 1)..end :
                    text[i] = "|" /\ Depth(text, i) = Depth(text, start + 1)})

(* C10: every Disjunction of a parsed tree has at least one Alternative,   *)
(* and one more Alternative than there are "|" at its own nesting level;   *)
(* a|b|a gives three Alternatives of one Term, a| gives two, the second    *)
(* empty.                                                                  *)
C10_Alternatives ==
    Done =>
        /\ result.t = "ok" =>
              Let(NodesOf(result.v), LAMBDA nodes :
                  \A i \in 1..Len(nodes) :
                      nodes[i].type = "Disjunction" =>
                          /\ Len(nodes[i].body) >= 1
                          /\ Len(nodes[i].body)
                                = 1 + BarsAtLevel(source_text, nodes[i].span.start,
                                                  nodes[i].span.end))
        /\ source_text = <<"a", "|", "b", "|", "a">> =>
              /\ result.t = "ok"
              /\ ShapeOf(result.v) = << <<"Character">>, <<"Character">>, <<"Character">> >>
        /\ source_text = <<"a", "|">> =>
              /\ result.t = "ok"
              /\ ShapeOf(result.v) = << <<"Character">>, <<>> >>

C10_Witness ==
    /\ Succeeded
    /\ source_text = <<"(", "a", "|", ")", "|">>
    /\ Len(result.v.body.body) = 2

-----------------------------------------------------------------------------
(* C11: a pattern holding a named group (?<N>...) that parses gives a      *)
(* CapturingGroup whose name is Some(N), N being the text between < and >, *)
(* also when characters that take more bytes in UTF-8 than code units in   *)
(* UTF-16 come before the group.                                           *)
C11_GroupName ==
    \A c \in GroupNameCases :
        source_text = GroupNameText(c) /\ Succeeded =>
            \E i \in 1..Len(NodesOf(result.v)) :
                /\ NodesOf(result.v)[i].type = "CapturingGroup"
                /\ NodesOf(result.v)[i].name = SomeOpt(c.name)

-----------------------------------------------------------------------------
(* C12: in unicode mode \uXXXX\uYYYY, XXXX a lead surrogate and YYYY a     *)
(* trail surrogate, parses to one Character of kind UnicodeEscape whose    *)
(* value is 0x10000 + (lead - 0xD800) * 0x400 + (trail - 0xDC00), U+1F600  *)
(* for \ud83d\ude00; in non-unicode mode the same text gives two           *)
(* Characters, the lead and the trail.                                     *)
LeadQuads == {q \in HexQuads : q.value >= 55296 /\ q.value <= 56319}

TrailQuads == {q \in HexQuads : q.value >= 56320 /\ q.value <= 57343}

Scalar(lead, trail) == 65536 + (lead - 55296) * 1024 + (trail - 56320)

UnicodeEscapes(pattern) ==
    [i \in 1..Len(OnlyTerms(pattern)) |->
        IF /\ OnlyTerms(pattern)[i].type = "Character"
           /\ OnlyTerms(pattern)[i].kind = "UnicodeEscape"
        THEN OnlyTerms(pattern)[i].value
        ELSE NoCp]

C12_SurrogatePair ==
    \A lead \in LeadQuads, trail \in TrailQuads :
        source_text = EscapeText(lead) \o EscapeText(trail) /\ Done =>
            /\ Succeeded
            /\ UnicodeEscapes(result.v) =
                   IF options.unicode_flag \/ options.unicode_sets_flag
                   THEN <<Scalar(lead.value, trail.value)>>
                   ELSE <<lead.value, trail.value>>
            /\ (options.unicode_flag \/ options.unicode_sets_flag) =>
                   OnlyTerms(result.v)[1].span = [start |-> 0, end |-> 12]

C12_Witness ==
    /\ source_text = <<"\\", "u", "d", "8", "3", "d", "\\", "u", "d", "e", "0", "0">>
    /\ options.unicode_flag
    /\ Succeeded
    /\ UnicodeEscapes(result.v) = <<128512>>

-----------------------------------------------------------------------------
(* C13: with unicode_sets_flag set, a character class whose opener ([ or   *)
(* [^) is not followed by ] makes parse fail with the error                *)
(* "TODO: ClassSetExpression"; NonemptyClassRanges is never entered: no    *)
(* parsed class has a body and none of its errors is returned.             *)
NonemptyClassRangesErrors ==
    {"Empty class atom", "Missing class ranges", "Missing class atom pair",
     "Character class range out of order", "Invalid character class range",
     "Empty class ranges", "Invalid class escape"}

C13_ClassSetExpression ==
    options.unicode_sets_flag /\ Done =>
        /\ \A c \in ClassSetCases :
               /\ source_text = ClassSetText(c)
               /\ c.opener = <<"[">> => ~StartsWith(c.rest, <<"^">>)
               /\ ~StartsWith(c.rest, <<"]">>)
               => Failed("TODO: ClassSetExpression")
        /\ Succeeded =>
               \A i \in 1..Len(NodesOf(result.v)) :
                   NodesOf(result.v)[i].type = "CharacterClass" =>
                       NodesOf(result.v)[i].body = <<>>
        /\ result.t = "err" => result.msg \notin NonemptyClassRangesErrors

C13_Witness ==
    /\ options.unicode_sets_flag
    /\ source_text = <<"[", "]", "[", "^", "a", "-", "]">>
    /\ Failed("TODO: ClassSetExpression")

-----------------------------------------------------------------------------
(* C14: in every parsed tree the span of each node lies within the span of *)
(* its parent and has start <= end, and the span of the root Pattern is    *)
(* (span_offset, span_offset + length of the caller's source text), the    *)
(* empty pattern and texts outside ASCII included.                         *)
Within(inner, outer) ==
    /\ outer.start <= inner.start
    /\ inner.start <= inner.end
    /\ inner.end <= outer.end

RECURSIVE SpansNested(_)
SpansNested(n) ==
    /\ n.span.start <= n.span.end
    /\ \A i \in 1..Len(ChildrenOf(n)) :
           /\ Within(ChildrenOf(n)[i].span, n.span)
           /\ SpansNested(ChildrenOf(n)[i])

(* The length of a text in bytes (UTF-8).                                  *)
BytesOf(text) == Len(text) + Cardinality({i \in 1..Len(text) : text[i] = EAcute})

C14_SpansNested == Succeeded => SpansNested(result.v)

C14_RootSpan ==
    Succeeded =>
        result.v.span = [start |-> options.span_offset,
                         end |-> options.span_offset + BytesOf(source_text)]

(* What holds of the root span: the claim for every text but the empty one. *)
C14_RootSpan_NonEmpty ==
    Succeeded /\ source_text # <<>> =>
        result.v.span = [start |-> options.span_offset,
                         end |-> options.span_offset + BytesOf(source_text)]

C14_Spans == C14_SpansNested /\ C14_RootSpan

-----------------------------------------------------------------------------
(* C15: the first error a grammar function raises is the result of parse:  *)
(* the error of the first term that fails, at top level or at the start of *)
(* a group's body, comes back unchanged (same message, same cursor), no    *)
(* Pattern comes with it, and parse raises its own error only when no term *)
(* failed.                                                                 *)
RECURSIVE FirstRaise(_, _)
(* The first error among the terms read one after the other from pos on,   *)
(* across |; None where the terms end without one.                         *)
FirstRaise(self, pos) ==
    Let(parse_term(self, pos), LAMBDA term :
        IF Raised(term) THEN term
        ELSE IF term.t = "some" THEN FirstRaise(self, term.pos)
        ELSE IF eat(self, term.pos, "|") THEN FirstRaise(self, term.pos + 1)
        ELSE None(term.pos))

GroupOpeners ==
    {<<"(", "?", ":">>, <<"(", "?", "=">>, <<"(", "?", "!">>,
     <<"(", "?", "<", "=">>, <<"(", "?", "<", "!">>}

C15_FirstError ==
    Done =>
        /\ Raised(FirstRaise(Fresh, 0)) => result = FirstRaise(Fresh, 0)
        /\ ~Raised(FirstRaise(Fresh, 0)) =>
               \/ Succeeded
               \/ result = Err("Could not parse the entire pattern",
                               FirstRaise(Fresh, 0).pos)
        /\ result.t = "err" => DOMAIN result = {"t", "msg", "pos"}
        /\ \A p \in 0..Len(source_text), opener \in GroupOpeners :
               /\ p + Len(opener) <= Len(source_text)
               /\ SubSeq(source_text, p + 1, p + Len(opener)) = opener
               /\ Raised(FirstRaise(Fresh, p + Len(opener)))
               => parse_term(Fresh, p) = FirstRaise(Fresh, p + Len(opener))

C15_Witness ==
    /\ source_text = <<"(", "?", ":", "[", "a">>
    /\ ~options.unicode_sets_flag
    /\ Failed("Empty class atom")
    /\ result = FirstRaise(Fresh, 3)

-----------------------------------------------------------------------------
(* C16: parse terminates on every input in every mode: an iteration of the *)
(* term loop, of the class-ranges recursion or of the identifier loop that *)
(* does not end the loop consumes at least one code point, and parse ends  *)
(* by returning Ok or Err.                                                 *)
C16_Progress ==
    Let(Fresh, LAMBDA self :
        \A p \in 0..Len(source_text) :
            /\ Let(parse_term(self, p), LAMBDA term :
                   /\ term.t = "some" => term.pos > p
                   /\ term.pos <= Len(source_text))
            /\ Let(parse_class_atom(self, p), LAMBDA class_atom :
                   class_atom.t = "some" => class_atom.pos > p)
            /\ Let(consume_reg_exp_idenfigier_part(self, p), LAMBDA part :
                   part.t = "some" => part.pos > p)
            /\ Let(consume_octal_digit(self, p), LAMBDA digit :
                   digit.t = "some" => digit.pos > p))

C16_ReturnsOkOrErr == Done => result.t \in {"ok", "err"}

C16_Terminates == C16_Progress /\ C16_ReturnsOkOrErr

-----------------------------------------------------------------------------
(* C17: a speculative function that reports no match (None) leaves the     *)
(* reader cursor where it was on entry; in particular consume_decimal_     *)
(* escape on digits of value 0, consume_legacy_octal_escape_sequence and   *)
(* the \-prefixed branches of the identifier functions.                    *)
Restored(r, p) == r.t = "none" => r.pos = p

C17_DecimalEscape ==
    \A p \in 0..Len(source_text) : Restored(consume_decimal_escape(Fresh, p), p)

C17_LegacyOctal ==
    \A p \in 0..Len(source_text) :
        Restored(consume_legacy_octal_escape_sequence(Fresh, p), p)

C17_Identifier ==
    \A p \in 0..Len(source_text) :
        /\ Restored(consume_reg_exp_idenfigier_start(Fresh, p), p)
        /\ Restored(consume_reg_exp_idenfigier_part(Fresh, p), p)

C17_Others ==
    \A p \in 0..Len(source_text) :
        /\ Restored(consume_decimal_digits(Fresh, p), p)
        /\ Restored(consume_octal_digit(Fresh, p), p)
        /\ Restored(consume_quantifier(Fresh, p), p)
        /\ Restored(consume_reg_exp_unicode_escape_sequence(Fresh, p), p)
        /\ Restored(consume_identity_escape(Fresh, p), p)
        /\ Restored(consume_extended_pattern_character(Fresh, p), p)
        /\ Restored(parse_character_class(Fresh, p), p)
        /\ Restored(parse_assertion(Fresh, p), p)
        /\ Restored(parse_term(Fresh, p), p)

C17_NoneRestoresCursor ==
    Done => C17_DecimalEscape /\ C17_LegacyOctal /\ C17_Identifier /\ C17_Others

-----------------------------------------------------------------------------
(* C18: in non-unicode mode, outside a character class, \c followed by a   *)
(* character that is no ASCII letter is accepted: the backslash becomes a  *)
(* Character of kind Symbol whose span is the backslash alone, and the c   *)
(* is read as the next term.                                               *)
IsLetter(c) == Code(c) \in (Code("a")..Code("z")) \cup (Code("A")..Code("Z"))

C18_ControlFallback ==
    \A c \in ControlCases :
        /\ source_text = ControlText(c)
        /\ ~options.unicode_flag /\ ~options.unicode_sets_flag
        /\ c.tail # <<>> /\ ~IsLetter(c.tail[1])
        /\ Done
        => /\ Succeeded
           /\ Len(OnlyTerms(result.v)) > Len(c.prefix)
           /\ OnlyTerms(result.v)[Len(c.prefix) + 1] =
                  Character([start |-> Len(c.prefix), end |-> Len(c.prefix) + 1],
                            "Symbol", Code("\\"))

(* What the parser does with those texts.                                  *)
C18_ControlRejected ==
    \A c \in ControlCases :
        /\ source_text = ControlText(c)
        /\ ~options.unicode_flag /\ ~options.unicode_sets_flag
        /\ c.tail = <<>> \/ ~IsLetter(c.tail[1])
        /\ Done
        => Failed("Invalid atom escape")

-----------------------------------------------------------------------------
(* C19: an escape outside a class is a backreference only when its digit    *)
(* run starts with a non-zero digit; in non-unicode mode \0 followed by     *)
(* octal digits (\07) is a Character of kind Octal holding the octal value, *)
(* never an IndexedReference.                                              *)
AllOctal(text) ==
    text # <<>> /\ \A i \in 1..Len(text) : text[i] \in {"0", "1", "2", "3", "4", "5", "6", "7"}

RECURSIVE OctalValue(_)
OctalValue(digits) ==
    IF digits = <<>> THEN 0
    ELSE 8 * OctalValue(SubSeq(digits, 1, Len(digits) - 1))
            + (Code(digits[Len(digits)]) - Code("0"))

C19_ZeroLedEscape ==
    \A c \in OctalCases :
        source_text = OctalText(c) /\ ~c.class /\ c.digits[1] = "0" /\ Done =>
            /\ Succeeded =>
                   \A i \in 1..Len(NodesOf(result.v)) :
                       NodesOf(result.v)[i].type # "IndexedReference"
            /\ /\ ~options.unicode_flag /\ ~options.unicode_sets_flag
               /\ Len(c.digits) > 1 /\ AllOctal(c.digits)
               => /\ Succeeded
                  /\ OnlyTerms(result.v) =
                         <<Character([start |-> 0, end |-> Len(source_text)], "Octal",
                                     OctalValue(c.digits))>>

(* What holds: an IndexedReference carries the decimal value of the whole  *)
(* digit run, which is not 0, whatever digit the run starts with.          *)
C19_DecimalEscape ==
    \A c \in OctalCases :
        source_text = OctalText(c) /\ ~c.class /\ Done =>
            IF DecimalValue(c.digits) # 0
            THEN /\ Succeeded
                 /\ OnlyTerms(result.v) =
                        <<[type |-> "IndexedReference",
                           span |-> [start |-> 0, end |-> Len(source_text)],
                           index |-> DecimalValue(c.digits)]>>
            ELSE Failed("Invalid atom escape")

-----------------------------------------------------------------------------
(* C20: consume_legacy_octal_escape_sequence consumes three octal digits   *)
(* only when the first is 0..3 (value first*64 + second*8 + third); when   *)
(* the first is 4..7 and two more octal digits follow it consumes two      *)
(* digits (value first*8 + second) and leaves the third; the value is      *)
(* never above 255.                                                        *)
C20_LegacyOctal ==
    \A c \in OctalCases :
        /\ source_text = OctalText(c) /\ c.class
        /\ Len(c.digits) = 3 /\ AllOctal(c.digits)
        /\ Done
        => /\ consume_legacy_octal_escape_sequence(Fresh, 2).t = "some"
           /\ consume_legacy_octal_escape_sequence(Fresh, 2).v <= 255
           /\ IF c.digits[1] \in {"0", "1", "2", "3"}
              THEN /\ consume_legacy_octal_escape_sequence(Fresh, 2).v = OctalValue(c.digits)
                   /\ consume_legacy_octal_escape_sequence(Fresh, 2).pos = 5
              ELSE /\ consume_legacy_octal_escape_sequence(Fresh, 2).v =
                          OctalValue(SubSeq(c.digits, 1, 2))
                   /\ consume_legacy_octal_escape_sequence(Fresh, 2).pos = 4

(* What holds: the values are as claimed, but the third digit is consumed  *)
(* whatever the first digit is.                                            *)
C20_ThirdDigitConsumed ==
    \A c \in OctalCases :
        /\ source_text = OctalText(c) /\ c.class
        /\ Len(c.digits) = 3 /\ AllOctal(c.digits)
        /\ Done
        => /\ consume_legacy_octal_escape_sequence(Fresh, 2) =
                  Some(IF c.digits[1] \in {"0", "1", "2", "3"}
                       THEN OctalValue(c.digits)
                       ELSE OctalValue(SubSeq(c.digits, 1, 2)), 5)
           /\ ~options.unicode_flag /\ ~options.unicode_sets_flag =>
                  /\ Succeeded
                  /\ Len(OnlyTerms(result.v)[1].body) = 1
                  /\ OnlyTerms(result.v)[1].body[1].span = [start |-> 1, end |-> 5]

-----------------------------------------------------------------------------
(* The items of the class that is the only term of the parsed pattern.     *)
ClassBody == OnlyTerms(result.v)[1].body

ItemAt(type, start, text) ==
    [type |-> type, span |-> [start |-> start, end |-> start + Len(text)]]

(* The class body holds, after the items before, first, "-", second, one   *)
(* by one, and no CharacterClassRange.                                     *)
ThreeItems(c) ==
    /\ Succeeded
    /\ Len(ClassBody) = Len(c.before) + 3 + Len(c.after)
    /\ \A i \in 1..Len(ClassBody) : ClassBody[i].type # "CharacterClassRange"
    /\ Let(Len(c.before) + 1, LAMBDA at :
           /\ [f \in {"type", "span"} |-> ClassBody[Len(c.before) + 1][f]] =
                  ItemAt(c.from.type, at, c.from.text)
           /\ ClassBody[Len(c.before) + 2] =
                  Character([start |-> at + Len(c.from.text),
                             end |-> at + Len(c.from.text) + 1], "Symbol", Code("-"))
           /\ [f \in {"type", "span"} |-> ClassBody[Len(c.before) + 3][f]] =
                  ItemAt(c.to.type, at + Len(c.from.text) + 1, c.to.text))

(* The class body holds, after the items before, the range first-second.   *)
OneRange(c) ==
    /\ Succeeded
    /\ Len(ClassBody) = Len(c.before) + 1 + Len(c.after)
    /\ ClassBody[Len(c.before) + 1].type = "CharacterClassRange"
    /\ ClassBody[Len(c.before) + 1].min.value = c.from.value
    /\ ClassBody[Len(c.before) + 1].max.value = c.to.value

RangeEndsAreCharacters ==
    Succeeded =>
        \A i \in 1..Len(NodesOf(result.v)) :
            NodesOf(result.v)[i].type = "CharacterClassRange" =>
                /\ NodesOf(result.v)[i].min.type = "Character"
                /\ NodesOf(result.v)[i].max.type = "Character"

(* What C21 says of [..A-B..] when unicode_mode says which mode it is.     *)
ClassEscapeRange(c, unicode_mode) ==
    c.from.type # "Character" \/ c.to.type # "Character" =>
        IF unicode_mode THEN Failed("Invalid character class range")
        ELSE "UnicodePropertyEscape" \notin {c.from.type, c.to.type} => ThreeItems(c)

(* Two Characters in order do make a range (unicode_sets_flag not set).    *)
C21_RangeOfCharacters ==
    Done /\ ~options.unicode_sets_flag =>
        \A c \in ClassRangeCases :
            /\ source_text = ClassRangeText(c)
            /\ c.from.type = "Character" /\ c.to.type = "Character"
            /\ c.from.value <= c.to.value
            => OneRange(c)

-----------------------------------------------------------------------------
BraceDigitRuns == TextsOf({<<"1">>, <<"2">>}, MaxBraceItems) \ {<<>>}

(* What may follow "{" in a complete braced quantifier: n}  n,}  n,m}      *)
CompleteBraces ==
    Cat(BraceDigitRuns, {<<"}">>, <<",", "}">>})
        \cup Cat(BraceDigitRuns, Cat({<<",">>}, Cat(BraceDigitRuns, {<<"}">>})))

BeginsCompleteBrace(rest) == \E q \in CompleteBraces : StartsWith(rest, q)

(* What follows the first "{" of the source text.                          *)
AfterBrace(prefix) == SubSeq(source_text, Len(prefix) + 2, Len(source_text))

(* C22: a "{" that does not begin a complete braced quantifier ("{" with   *)
(* no digits, or "{n", "{n," or "{n,m" with no "}") makes parse fail with  *)
(* "Unterminated quantifier", in unicode mode and in non-unicode mode.     *)
C22_UnterminatedQuantifier ==
    Done =>
        \A prefix \in BracePrefixes :
            /\ StartsWith(source_text, prefix \o <<"{">>)
            /\ ~BeginsCompleteBrace(AfterBrace(prefix))
            => Failed("Unterminated quantifier")

(* A complete braced quantifier never gives that error.                    *)
C22_CompleteBrace ==
    Done =>
        \A prefix \in BracePrefixes :
            /\ StartsWith(source_text, prefix \o <<"{">>)
            /\ BeginsCompleteBrace(AfterBrace(prefix))
            => ~Failed("Unterminated quantifier")

C22_Witness ==
    /\ source_text = <<"a", "{", "1", ",", "2">>
    /\ ~options.unicode_flag /\ ~options.unicode_sets_flag
    /\ Failed("Unterminated quantifier")

-----------------------------------------------------------------------------
(* The digits between "{" and the "}" or "," of a braced prefix.           *)
PrefixDigits(prefix) ==
    SubSeq(prefix, 2, IF prefix[Len(prefix) - 1] = "," THEN Len(prefix) - 2
                      ELSE Len(prefix) - 1)

(* min and max as C23 gives them for a quantifier prefix.                  *)
PrefixMin(prefix) ==
    IF prefix = <<"*">> THEN 0
    ELSE IF prefix = <<"+">> THEN 1
    ELSE IF prefix = <<"?">> THEN 0
    ELSE DecimalValue(PrefixDigits(prefix))

PrefixMax(prefix) ==
    IF prefix = <<"*">> THEN NoneOpt
    ELSE IF prefix = <<"+">> THEN NoneOpt
    ELSE IF prefix = <<"?">> THEN SomeOpt(1)
    ELSE IF prefix[Len(prefix) - 1] = "," THEN NoneOpt
    ELSE SomeOpt(DecimalValue(PrefixDigits(prefix)))

(* C23: consume_quantifier maps * to (0, None), + to (1, None), ? to       *)
(* (0, Some(1)), {n} to (n, Some(n)) and {n,} to (n, None); greedy is      *)
(* false exactly when a "?" comes right after the prefix, and the          *)
(* Quantifier of the tree carries the same min, max and greedy.            *)
C23_QuantifierPrefix ==
    \A c \in QuantifierPrefixCases :
        source_text = QuantifierPrefixText(c) /\ Done =>
            /\ consume_quantifier(Fresh, Len(c.atom)) =
                   Some([min |-> PrefixMin(c.prefix), max |-> PrefixMax(c.prefix),
                         greedy |-> ~c.lazy],
                        Len(c.atom) + Len(c.prefix) + (IF c.lazy THEN 1 ELSE 0))
            /\ Succeeded
            /\ OnlyTerms(result.v)[1].type = "Quantifier"
            /\ OnlyTerms(result.v)[1].min = PrefixMin(c.prefix)
            /\ OnlyTerms(result.v)[1].max = PrefixMax(c.prefix)
            /\ OnlyTerms(result.v)[1].greedy = ~c.lazy

C23_Witness ==
    /\ source_text = <<"a", "{", "1", "9", ",", "}", "?", "a", "?">>
    /\ Succeeded
    /\ OnlyTerms(result.v)[1].min = 19
    /\ OnlyTerms(result.v)[1].max = NoneOpt
    /\ ~OnlyTerms(result.v)[1].greedy
    /\ OnlyTerms(result.v)[2].greedy

-----------------------------------------------------------------------------
TermTypes ==
    {"BoundaryAssertion", "LookAroundAssertion", "Quantifier", "Character", "Dot",
     "CharacterClassEscape", "UnicodePropertyEscape", "CharacterClass", "CapturingGroup",
     "IgnoreGroup", "IndexedReference", "NamedReference"}

(* C24: in every parsed tree the body of a Quantifier is one Term, never a *)
(* Quantifier, never a BoundaryAssertion and never a lookbehind; in        *)
(* unicode mode never a LookAroundAssertion of any kind.                   *)
C24_QuantifierBody ==
    Succeeded =>
        Let(NodesOf(result.v), LAMBDA nodes :
            \A i \in 1..Len(nodes) :
                nodes[i].type = "Quantifier" =>
                    /\ nodes[i].body.type \in TermTypes \ {"Quantifier", "BoundaryAssertion"}
                    /\ nodes[i].body.type = "LookAroundAssertion" =>
                           /\ nodes[i].body.kind \in {"Lookahead", "NegativeLookahead"}
                           /\ ~options.unicode_flag /\ ~options.unicode_sets_flag)

C24_Witness ==
    /\ source_text = <<"(", "?", "=", "a", "*", ")", "+", "?", "a">>
    /\ Succeeded
    /\ OnlyTerms(result.v)[1].type = "Quantifier"
    /\ OnlyTerms(result.v)[1].body.type = "LookAroundAssertion"
    /\ OnlyTerms(result.v)[1].body.body.body[1].body[1].type = "Quantifier"

-----------------------------------------------------------------------------
HexChars ==
    {"0", "1", "2", "3", "4", "5", "6", "7", "8", "9",
     "a", "b", "c", "d", "e", "f", "A", "B", "C", "D", "E", "F"}

(* The text begins with \u and four hex digits in DC00..DFFF.              *)
BeginsTrailEscape(text) ==
    /\ Len(text) >= 6
    /\ text[1] = "\\" /\ text[2] = "u"
    /\ text[3] \in {"d", "D"}
    /\ text[4] \in {"c", "d", "e", "f", "C", "D", "E", "F"}
    /\ text[5] \in HexChars /\ text[6] \in HexChars

(* r is what s is when every position of s is moved up by k.               *)
SameShifted(r, s, k) ==
    /\ r.t = s.t
    /\ r.pos = s.pos + k
    /\ r.t = "err" => r.msg = s.msg
    /\ r.t = "some" =>
           /\ r.v.type = s.v.type
           /\ r.v.span = [start |-> s.v.span.start + k, end |-> s.v.span.end + k]
           /\ r.v.type = "Character" => r.v.kind = s.v.kind /\ r.v.value = s.v.value

(* What follows the first escape of the source text.                       *)
AfterLead == SubSeq(source_text, 7, Len(source_text))

(* C25: in unicode mode the escape of a lead surrogate that no \u and      *)
(* trail surrogate follow gives a Character whose value is the surrogate   *)
(* and leaves the reader right after its four hex digits; what follows is  *)
(* parsed as the next term, as it would be on its own.                     *)
C25_LoneLeadSurrogate ==
    \A lead \in LeadQuads :
        /\ StartsWith(source_text, EscapeText(lead)) /\ Done
        /\ options.unicode_flag \/ options.unicode_sets_flag
        /\ ~BeginsTrailEscape(AfterLead)
        => /\ Let(Fresh, LAMBDA self :
                  /\ consume_reg_exp_unicode_escape_sequence(self, 1) = Some(lead.value, 6)
                  /\ parse_atom(self, 0) =
                         Some(Character([start |-> 0, end |-> 6], "UnicodeEscape",
                                        lead.value), 6)
                  /\ ~StartsWith(AfterLead, <<"{">>) =>
                         SameShifted(
                             parse_term(self, 6),
                             parse_term(with_disjunctions(PatternParser_new(AfterLead,
                                                                            options)), 0),
                             6))
           /\ Succeeded =>
                  Character([start |-> 0, end |-> 6], "UnicodeEscape", lead.value) =
                      IF StartsWith(AfterLead, <<"{">>) THEN OnlyTerms(result.v)[1].body
                      ELSE OnlyTerms(result.v)[1]

C25_Witness ==
    /\ source_text = <<"\\", "u", "d", "8", "3", "d", "\\", "u", "0", "0", "4", "1">>
    /\ options.unicode_flag
    /\ Succeeded
    /\ UnicodeEscapes(result.v) = <<55357, 65>>
    /\ OnlyTerms(result.v)[2].span = [start |-> 6, end |-> 12]

-----------------------------------------------------------------------------
(* The property expressions of SpecProperty that name a property, and      *)
(* those among them that name a property of strings.                       *)
ValidPropertyExpressions ==
    {<<"L">>, <<"L", "u">>, <<"g", "c", "=", "L">>, <<"s", "c", "=", "L", "a", "t", "n">>,
     <<"A", "n", "y">>, <<"A", "S", "C", "I", "I">>}

PropertiesOfStrings ==
    {<<"R", "G", "I", "_", "E", "m", "o", "j", "i">>,
     <<"B", "a", "s", "i", "c", "_", "E", "m", "o", "j", "i">>}

(* C26: in unicode mode \P{...} gives UnicodePropertyEscape{negative:      *)
(* true} and \p{...} gives UnicodePropertyEscape{negative: false}.         *)
C26_PropertyEscapeNegative ==
    \A c \in PropertyCases :
        /\ source_text = PropertyText(c) /\ Done
        /\ options.unicode_flag \/ options.unicode_sets_flag
        /\ c.expression \in ValidPropertyExpressions /\ c.closed /\ c.tail # <<"}">>
        => /\ Succeeded
           /\ OnlyTerms(result.v)[1].type = "UnicodePropertyEscape"
           /\ OnlyTerms(result.v)[1].negative = (c.letter = "P")

(* What holds: the escape parses, with negative = true for \p and false    *)
(* for \P.                                                                 *)
C26_NegativeInverted ==
    \A c \in PropertyCases :
        /\ source_text = PropertyText(c) /\ Done
        /\ options.unicode_flag \/ options.unicode_sets_flag
        /\ c.expression \in ValidPropertyExpressions /\ c.closed /\ c.tail # <<"}">>
        => /\ Succeeded
           /\ OnlyTerms(result.v)[1].type = "UnicodePropertyEscape"
           /\ OnlyTerms(result.v)[1].negative = (c.letter = "p")
           /\ ~OnlyTerms(result.v)[1].strings
           /\ OnlyTerms(result.v)[1].span = [start |-> 0, end |-> Len(c.expression) + 4]

-----------------------------------------------------------------------------
(* C27: a lone name of a property of strings is accepted, with strings =   *)
(* true, only in unicode-sets mode and only as \p{...}; in unicode mode    *)
(* without unicode-sets mode parse fails, and \P{...} of a property of     *)
(* strings fails in every mode.                                            *)
C27_PropertyOfStrings ==
    \A c \in PropertyCases :
        /\ source_text = PropertyText(c) /\ Done
        /\ c.expression \in PropertiesOfStrings /\ c.closed /\ c.tail # <<"}">>
        => /\ Succeeded <=> (options.unicode_sets_flag /\ c.letter = "p")
           /\ Succeeded =>
                  /\ OnlyTerms(result.v)[1].type = "UnicodePropertyEscape"
                  /\ OnlyTerms(result.v)[1].strings

(* What holds: without unicode_sets_flag parse fails; with it, \P{...} is  *)
(* accepted with strings = true and negative = false, and \p{...} fails    *)
(* with "Invalid property name".                                           *)
C27_StringsAcceptedAsUpperP ==
    \A c \in PropertyCases :
        /\ source_text = PropertyText(c) /\ Done
        /\ c.expression \in PropertiesOfStrings /\ c.closed /\ c.tail # <<"}">>
        => IF ~options.unicode_sets_flag
           THEN IF options.unicode_flag THEN Failed("Syntax Error")
                ELSE Failed("Unterminated quantifier")
           ELSE IF c.letter = "p" THEN Failed("Invalid property name")
           ELSE /\ Succeeded
                /\ OnlyTerms(result.v)[1].type = "UnicodePropertyEscape"
                /\ OnlyTerms(result.v)[1].strings
                /\ ~OnlyTerms(result.v)[1].negative

-----------------------------------------------------------------------------
(* A digit run without its leading zeros.                                  *)
RECURSIVE StripZeros(_)
StripZeros(digits) ==
    IF digits # <<>> /\ Head(digits) = "0" THEN StripZeros(Tail(digits)) ELSE digits

(* a <= b for two digit runs of one length, digit by digit.                *)
RECURSIVE SameLengthLe(_, _)
SameLengthLe(a, b) ==
    IF a = <<>> THEN TRUE
    ELSE IF Head(a) # Head(b) THEN Code(Head(a)) < Code(Head(b))
    ELSE SameLengthLe(Tail(a), Tail(b))

(* The mathematical value of the digit run a is at most that of b.         *)
DigitRunLe(a, b) ==
    \/ Len(StripZeros(a)) < Len(StripZeros(b))
    \/ /\ Len(StripZeros(a)) = Len(StripZeros(b))
       /\ SameLengthLe(StripZeros(a), StripZeros(b))

U32MaxDigits == <<"4", "2", "9", "4", "9", "6", "7", "2", "9", "5">>

FitsU32(digits) == DigitRunLe(digits, U32MaxDigits)

(* The u32 whose value is that of a digit run that fits a u32.             *)
RECURSIVE U32Of(_)
U32Of(digits) ==
    IF digits = <<>> THEN 0
    ELSE u32_add(u32_mul(10, U32Of(SubSeq(digits, 1, Len(digits) - 1))).v,
                 Code(digits[Len(digits)]) - Code("0")).v

(* min (or max) of a quantifier is the mathematical value of a digit run.  *)
IsValueOf(value, digits) == FitsU32(digits) /\ value = U32Of(digits)

(* The digits of source_text from its i-th character on.                   *)
RECURSIVE DigitRunAt(_)
DigitRunAt(i) ==
    IF i <= Len(source_text) /\ is_decimal_digit(Code(source_text[i]))
    THEN <<source_text[i]>> \o DigitRunAt(i + 1)
    ELSE <<>>

(* The case of SpecWideQuantifier that source_text is.                     *)
WideRuns ==
    Let(DigitRunAt(3), LAMBDA min :
        [min |-> min,
         comma |-> source_text[3 + Len(min)] = ",",
         max |-> DigitRunAt(IF source_text[3 + Len(min)] = "," THEN 4 + Len(min)
                            ELSE 3 + Len(min))])

(* C28: for every braced quantifier {n,m} that is accepted, the value of   *)
(* the digit run n is at most that of m, and min and max are those values, *)
(* also for digit runs whose value is above 2^32 - 1.                      *)
C28_WideQuantifierValues ==
    Let(WideRuns, LAMBDA c :
        Succeeded /\ c.comma /\ c.max # <<>>
        => /\ DigitRunLe(c.min, c.max)
           /\ IsValueOf(OnlyTerms(result.v)[1].min, c.min)
           /\ OnlyTerms(result.v)[1].max # NoneOpt
           /\ IsValueOf(OnlyTerms(result.v)[1].max[1], c.max))

(* What holds: when both digit runs fit a u32, {n,m} is accepted exactly   *)
(* when n <= m, with those values; a digit run above 2^32 - 1 makes a      *)
(* build with overflow checks panic, and is read modulo 2^32 by a build    *)
(* without them.                                                           *)
C28_QuantifierValuesWithinU32 ==
    Let(WideRuns, LAMBDA c :
        Done /\ c.comma /\ c.max # <<>>
        => IF FitsU32(c.min) /\ FitsU32(c.max)
           THEN IF DigitRunLe(c.min, c.max)
                THEN /\ Succeeded
                     /\ OnlyTerms(result.v)[1].min = U32Of(c.min)
                     /\ OnlyTerms(result.v)[1].max = SomeOpt(U32Of(c.max))
                ELSE Failed("Numbers out of order in braced quantifier")
           ELSE IF parser.overflow_checks
           THEN result.t = "panic"
           ELSE IF u32_lt(U32Of(c.max), U32Of(c.min))
           THEN Failed("Numbers out of order in braced quantifier")
           ELSE /\ Succeeded
                /\ OnlyTerms(result.v)[1].min = U32Of(c.min)
                /\ OnlyTerms(result.v)[1].max = SomeOpt(U32Of(c.max)))

(* {4294967296,1} is accepted by a build without overflow checks, with     *)
(* min = 0 and max = 1.                                                    *)
C28_Wrapped ==
    /\ source_text = <<"a", "{", "4", "2", "9", "4", "9", "6", "7", "2", "9", "6", ",",
                       "1", "}">>
    /\ Succeeded
    /\ OnlyTerms(result.v)[1].min = 0
    /\ OnlyTerms(result.v)[1].max = SomeOpt(1)

-----------------------------------------------------------------------------
(* The number of terms the head of a case of SpecNamedReference gives.     *)
HeadTerms(c) == IF c.head = <<>> THEN 0 ELSE 1

(* What follows \k is "<", a well-formed name, ">".                        *)
IsGroupName(after) ==
    \E name \in WellFormedNames : after = <<"<">> \o name \o <<">">>

-----------------------------------------------------------------------------
(* Where the backslash of a case of SpecClassControl is.                   *)
ControlAt(c) == (IF c.negative THEN 2 ELSE 1) + Len(c.before)

(* C30: inside a character class \cX with X an ASCII letter is one         *)
(* Character{kind: ControlLetter} over all three characters, the result    *)
(* parse_character_escape gives for \cX, and not a backslash followed by   *)
(* the characters c and X.                                                 *)
C30_ClassControlLetter ==
    \A c \in ClassControlCases :
        source_text = ClassControlText(c) /\ Done /\ ~options.unicode_sets_flag =>
            /\ Succeeded
            /\ Len(ClassBody) = Len(c.before) + 1 + Len(c.after)
            /\ ClassBody[Len(c.before) + 1] =
                   Character([start |-> ControlAt(c), end |-> ControlAt(c) + 3],
                             "ControlLetter", Code(c.letter) % 32)
            /\ ClassBody[Len(c.before) + 1] =
                   parse_character_escape(Fresh, ControlAt(c) + 1, ControlAt(c)).v

(* What holds without the unicode-sets flag: the class holds the           *)
(* backslash, c and X as three Symbol characters, where                    *)
(* parse_character_escape gives one ControlLetter for the same three       *)
(* characters.                                                             *)
C30_ClassControlSplit ==
    \A c \in ClassControlCases :
        source_text = ClassControlText(c) /\ Done /\ ~options.unicode_sets_flag =>
            /\ Succeeded
            /\ Len(ClassBody) = Len(c.before) + 3 + Len(c.after)
            /\ \A i \in 1..3 :
                   ClassBody[Len(c.before) + i] =
                       Character([start |-> ControlAt(c) + i - 1, end |-> ControlAt(c) + i],
                                 "Symbol", Code(<<"\\", "c", c.letter>>[i]))
            /\ parse_character_escape(Fresh, ControlAt(c) + 1, ControlAt(c)) =
                   SomeCharacter(Fresh, ControlAt(c), "ControlLetter", Code(c.letter) % 32,
                                 ControlAt(c) + 3)

=============================================================================
